---- MODULE Spec2Model ----
(***************************************************************************)
(* Together: end-to-end encrypted two-person chat.                         *)
(*                                                                         *)
(* Part 1 (Spec): the room admission / presence protocol of                *)
(* ChatRoomManager (chatRoomManager.js) as driven by the join effect of    *)
(* the useMessages hook, against one Firestore room document.              *)
(* Part 2 (SendSpec): one file send through useMessages.addMessage, the    *)
(* crypto worker and MegaStorage.uploadFile, with the abort signal.        *)
(* Part 3 (FileSpec): the file encryption round trip of the worker and of  *)
(* useMessages.downloadFile. Part 4 (AppSpec): setup with a shared code,    *)
(* room ids and the message channel. Part 5 (WorkerSpec): the request map  *)
(* of the shared crypto worker. LeaveSpec is Part 1 between two clients     *)
(* with every leave interleaving.                                          *)
(*                                                                         *)
(* Every await of the code is a separate step: a client's request and the  *)
(* moment the backing store serves it are different actions, so reads and  *)
(* writes of different clients interleave as they do over the network.     *)
(* Time is a global wall clock advancing in heartbeat intervals.           *)
(* The fields userName and joinedAt of a participant entry are written but *)
(* never read by the protocol and are left out; an entry is its lastSeen.  *)
(***************************************************************************)
EXTENDS Integers, FiniteSets, Sequences, TLC

\* ---------------------------------------------------------------- bounds
MaxTime == 2          \* number of clock ticks explored
MaxJoins == 3         \* join effects run, all clients together
MaxLeaves == 1        \* effect cleanups run, all clients together
MaxChunks == 3        \* chunks of the file sent
MaxFileLen == 5       \* bytes of the file put through encryptFile
CHUNK_SIZE == 2       \* bytes per chunk in the worker (1 MB in the code)
STREAM_CHUNK_SIZE == 3 \* bytes per chunk in encryptFileStreaming (5 MB in the code)
MaxSetups == 2        \* setups attempted, all devices together
MaxMessages == 2      \* message documents stored
MaxRequests == 2      \* requests made to the crypto worker

\* ------------------------------------------------------------- constants
HEARTBEAT_INTERVAL == 30000
INACTIVE_TIMEOUT == 60000

TickMs == HEARTBEAT_INTERVAL

Clients == {"c1", "c2", "c3"}

\* userName of each client; every client uses the same shared code
UserName == [c \in Clients |-> CASE c = "c1" -> "Alice" [] c = "c2" -> "Bob" [] OTHER -> "Carol"]

\* generateUserIdentifier: userName # first 8 hex digits of SHA-256(code).
\* The hash is a fixed function of the code; the code is the same for all.
ShortHash == "a3f2d9e1"
generateUserIdentifier(c) == <<UserName[c], ShortHash>>

Ids == {generateUserIdentifier(c) : c \in Clients}

Absent == -1

NoParts == [i \in Ids |-> Absent]
NoRoom == [exists |-> FALSE, parts |-> NoParts]

VARIABLES
  now,        \* wall clock, ms
  room,       \* the Firestore document chat_rooms/<id>: exists, participants -> lastSeen
  jpc,        \* per client: position inside joinRoom
  jsnap,      \* per client: activeParticipants held between getDoc and setDoc
  jts,        \* per client: Date.now() taken by the call in flight
  lpc,        \* per client: position inside leaveRoom
  lsnap,      \* per client: participants held between getDoc and setDoc
  mounted,    \* per client: the join effect is mounted (not cleaned up)
  joins,      \* number of join effects run so far
  leaves,     \* number of effect cleanups run so far
  heartbeatInterval,      \* per client: the interval timer is set
  participantUnsubscribe, \* per client: the onSnapshot listener is attached
  notify,     \* per client: a snapshot is waiting to be delivered
  result,     \* per client: what the last joinRoom returned
  roomError,  \* per client: hook state roomError
  canAccessRoom \* per client: hook state canAccessRoom

roomVars == <<now, room, jpc, jsnap, jts, lpc, lsnap, mounted, joins, leaves,
              heartbeatInterval, participantUnsubscribe, notify,
              result, roomError, canAccessRoom>>

VARIABLES
  spc,          \* position of addMessage / uploadFile
  signal,       \* abortSignal.aborted
  abortedAt,    \* position of the send when the signal fired
  totalChunks,  \* Math.ceil(fileBytes.length / CHUNK_SIZE) of the file sent
  encChunks,    \* worker: chunks encrypted so far (loop index i)
  encAtAbort,   \* encChunks when the signal fired
  workerQueue,  \* messages posted by the worker, not yet handled by the page
  workerBusy,   \* worker: encryptFile is running
  uiProgress,   \* last percentage handed to the caller's onProgress
  upAborted,    \* uploadFile: local flag aborted
  upListening,  \* uploadFile: abortHandler is registered on the signal
  upHandlers,   \* uploadFile: complete/error/close handlers are on the stream
  upStream,     \* uploadFile: the upload stream: none, open, closed, destroyed
  upTimer,      \* uploadFile: the 10 minute timeout is armed
  upResult,     \* what uploadFile returned
  outcome       \* what addMessage resolved with

sendVars == <<spc, signal, abortedAt, totalChunks, encChunks, encAtAbort,
              workerQueue, workerBusy, uiProgress, upAborted, upListening,
              upHandlers, upStream, upTimer, upResult, outcome>>

VARIABLES
  fpc,          \* file round trip: position (input, encrypted, decrypted)
  fileBytes,    \* the bytes of the file handed to encryptFile
  encKey,       \* the shared secret the file is encrypted under
  decKey,       \* the shared secret the receiver holds
  encryptedFile,\* what encryptFile returned: success, chunks, totalSize
  stored,       \* the chunk list as the receiver gets it from the blob store
  decResult,    \* what the worker's decryptFile returned
  dlResult,     \* what useMessages.downloadFile ended with
  streamResult  \* what decryptFileStreaming(encryptFileStreaming(..)) ended with

fileVars == <<fpc, fileBytes, encKey, decKey, encryptedFile, stored, decResult, dlResult,
              streamResult>>

VARIABLES
  apc,          \* per device: position inside handleSetupWithCode
  subtle,       \* per device: crypto.subtle is available in this environment
  sharedCode,   \* per device: the code typed into the setup screen
  myKeys,       \* per device: useEncryption state myKeys
  sharedSecret, \* per device: useEncryption state sharedSecret
  chatRoomId,   \* per device: useMessages state chatRoomId
  derivations,  \* number of deriveKeyPairFromCode calls made
  setupResult,  \* per device: what setupWithCode returned
  wire,         \* the strings sent to Firestore so far (paths, document fields)
  chan,         \* the message documents stored, oldest first
  messages,     \* per device: useMessages state messages
  digestOutcome \* per device: how crypto.subtle.digest ends (ok, rejects, short)

appVars == <<apc, subtle, sharedCode, myKeys, sharedSecret, chatRoomId,
             derivations, setupResult, wire, chan, messages, digestOutcome>>

VARIABLES
  messageId,       \* encryption.js: the next request id
  workerCallbacks, \* encryption.js: the ids with an entry in the callback map
  requests,        \* the payload of every request made, by id + 1
  workerInbox,     \* messages posted to the worker, not yet handled
  pageInbox,       \* messages posted by the worker, not yet handled by the page
  progressSeen,    \* by id + 1: the last progress handed to the request's onProgress
  settled,         \* by id + 1: the settlements of the request's promise, in order
  cancelRequested  \* the ids whose caller asked to cancel while the request was pending

workerVars == <<messageId, workerCallbacks, requests, workerInbox, pageInbox,
                progressSeen, settled, cancelRequested>>

VARIABLES
  step,           \* TogetherChat: the screen shown (welcome, code-setup, chat)
  userIdentifier, \* TogetherChat: the identifier state is set (not '')
  localStorage,   \* the items the page has stored
  encSecret,      \* useEncryption: sharedSecret is set
  hookRoomId,     \* useMessages: chatRoomId is set
  hookError,      \* useMessages: roomError (null, full, removed)
  hookAccess,     \* useMessages: canAccessRoom
  effMounted,     \* useMessages: the join effect ran and was not cleaned up
  pending,        \* joinRoom calls of the join effect still awaited
  listening,      \* the participants listener of the effect is attached
  inRoom,         \* this user is an active participant of the stored room
  otherUsers          \* the other users active in the stored room

sessVars == <<step, userIdentifier, localStorage, encSecret, hookRoomId, hookError,
              hookAccess, effMounted, pending, listening, inRoom, otherUsers>>

VARIABLES
  pTime,       \* real time, ms
  pSkew,       \* per page: what its Date.now() is ahead of real time
  pRoom,       \* the room document the pages write to and observe
  pIssued,     \* the updatePresence calls made, in call order: page, ts, real time
  pPending,    \* the calls whose updateDoc is not yet served (indices of pIssued)
  pStoredReal, \* the real time at which the stored lastSeen was taken
  pSeen        \* per observer: how its last snapshot classified the participant

presVars == <<pTime, pSkew, pRoom, pIssued, pPending, pStoredReal, pSeen>>

VARIABLES
  draft,            \* MessageInput: a message text or a selected file is present
  isUploading,      \* MessageInput state isUploading
  uploadController, \* MessageInput state uploadController: 0 (null) or the send it belongs to
  uploadProgress,   \* MessageInput state uploadProgress
  sendState,        \* per send started from the composer: none, inflight, returned
  sendAborted       \* the sends whose controller was aborted

compVars == <<draft, isUploading, uploadController, uploadProgress, sendState, sendAborted>>

notRoomVars == <<sendVars, fileVars, appVars, workerVars, sessVars, presVars, compVars>>
notSendVars == <<roomVars, fileVars, appVars, workerVars, sessVars, presVars, compVars>>
notFileVars == <<roomVars, sendVars, appVars, workerVars, sessVars, presVars, compVars>>
notAppVars == <<roomVars, sendVars, fileVars, workerVars, sessVars, presVars, compVars>>
notWorkerVars == <<roomVars, sendVars, fileVars, appVars, sessVars, presVars, compVars>>
notSessVars == <<roomVars, sendVars, fileVars, appVars, workerVars, presVars, compVars>>
notPresVars == <<roomVars, sendVars, fileVars, appVars, workerVars, sessVars, compVars>>
notCompVars == <<roomVars, sendVars, fileVars, appVars, workerVars, sessVars, presVars>>

vars == <<roomVars, sendVars, fileVars, appVars, workerVars, sessVars, presVars, compVars>>

\* ------------------------------------------------- bytes, base64, nacl

\* A byte string is a sequence of 0..255. A base64 string is a sequence of
\* sextets 0..63 (A-Z 0..25, a-z 26..51, 0-9 52..61, '+' 62, '/' 63) and the
\* padding character '=', written 64.
Pad == 64

RECURSIVE Concat(_)
Concat(ss) == IF ss = <<>> THEN <<>> ELSE Head(ss) \o Concat(Tail(ss))

\* Math.ceil(a / b) for a >= 0, b > 0
Ceil(a, b) == (a + b - 1) \div b

Min(a, b) == IF a < b THEN a ELSE b

\* uint8ArrayToBase64: btoa of the binary string of the bytes
uint8ArrayToBase64(bytes) ==
  LET n == Len(bytes)
      at(k) == IF k <= n THEN bytes[k] ELSE 0
  IN [j \in 1..(4 * Ceil(n, 3)) |->
        LET g == (j - 1) \div 4
            r == (j - 1) % 4
            b0 == at(3 * g + 1)
            b1 == at(3 * g + 2)
            b2 == at(3 * g + 3)
        IN CASE r = 0 -> b0 \div 4
             [] r = 1 -> (b0 % 4) * 16 + b1 \div 16
             [] r = 2 -> IF 3 * g + 2 > n THEN Pad ELSE (b1 % 16) * 4 + b2 \div 64
             [] OTHER -> IF 3 * g + 3 > n THEN Pad ELSE b2 % 64]

\* base64ToUint8Array: the char codes of atob(base64)
base64ToUint8Array(b64) ==
  LET pads == Cardinality({j \in 1..Len(b64) : b64[j] = Pad})
      n == (Len(b64) \div 4) * 3 - pads
      at(j) == IF b64[j] = Pad THEN 0 ELSE b64[j]
  IN [k \in 1..n |->
        LET g == (k - 1) \div 3
            r == (k - 1) % 3
            c0 == at(4 * g + 1)
            c1 == at(4 * g + 2)
            c2 == at(4 * g + 3)
            c3 == at(4 * g + 4)
        IN CASE r = 0 -> c0 * 4 + c1 \div 16
             [] r = 1 -> (c1 % 16) * 16 + c2 \div 4
             [] OTHER -> (c2 % 4) * 64 + c3]

\* Stand-in for the keyed primitives of tweetnacl: a position-weighted
\* checksum of a byte string modulo a prime, summed by halves. Changing one
\* byte of the input always changes the digest.
RECURSIVE WeightedSum(_, _, _)
WeightedSum(bytes, lo, hi) ==
  IF lo > hi THEN 0
  ELSE IF lo = hi THEN (bytes[lo] + 1) * (2 * lo + 1)
  ELSE LET mid == (lo + hi) \div 2
       IN WeightedSum(bytes, lo, mid) + WeightedSum(bytes, mid + 1, hi)

Digest(bytes) == (7 + WeightedSum(bytes, 1, Len(bytes))) % 65521

\* the 2-byte authenticator of a ciphertext under key and nonce (Poly1305)
Authenticator(ct, nonce, key) ==
  LET d == Digest(key \o nonce \o ct) IN <<d \div 256, d % 256>>

\* byte i of the key stream of key and nonce (XSalsa20)
KeyStream(i, nonce, key) == Digest(key \o nonce \o <<i>>) % 256

\* nacl.secretbox(msg, nonce, key): authenticator, then the masked bytes
secretbox(msg, nonce, key) ==
  LET ct == [i \in 1..Len(msg) |-> (msg[i] + KeyStream(i, nonce, key)) % 256]
  IN Authenticator(ct, nonce, key) \o ct

\* the value nacl.secretbox.open returns when authentication fails
OpenFailed == [ok |-> FALSE, bytes |-> <<>>]

\* nacl.secretbox.open(box, nonce, key): null unless the authenticator matches
secretboxOpen(box, nonce, key) ==
  IF Len(box) < 2 THEN OpenFailed
  ELSE LET ct == SubSeq(box, 3, Len(box)) IN
       IF SubSeq(box, 1, 2) # Authenticator(ct, nonce, key) THEN OpenFailed
       ELSE [ok |-> TRUE,
             bytes |-> [i \in 1..Len(ct) |-> (ct[i] + 256 - KeyStream(i, nonce, key)) % 256]]

\* ------------------------------------------------------ pure operations

\* joinRoom 36-44 and listenToParticipants 196-203: the active filter
IsActive_NoTimeout(lastSeen, t) == lastSeen # Absent

IsActive(lastSeen, t) == lastSeen # Absent /\ t - lastSeen < INACTIVE_TIMEOUT

ActiveParticipants(parts, t) ==
  [i \in Ids |-> IF IsActive(parts[i], t) THEN parts[i] ELSE Absent]

Keys(parts) == {i \in Ids : parts[i] # Absent}

\* setDoc(ref, {participants}, {merge: true}): leaf fields given are written,
\* every other stored field is kept; creates the document when missing
SetDocMerge(r, parts) ==
  [exists |-> TRUE,
   parts |-> [i \in Ids |-> IF parts[i] # Absent THEN parts[i] ELSE r.parts[i]]]

\* setDoc(ref, {participants}) without merge: the document is replaced
SetDocCreate(parts) == [exists |-> TRUE, parts |-> parts]

\* updateDoc(ref, {participants.<id>.lastSeen: ts}): fails on a missing
\* document (error caught in updatePresence), else writes the field path
UpdatePresenceDoc(r, id, ts) ==
  IF r.exists THEN [r EXCEPT !.parts[id] = ts] ELSE r

\* onSnapshot: every successful write to the document (each one also sets
\* updatedAt) schedules a snapshot for every attached listener
Notified(written) ==
  [c \in Clients |-> IF participantUnsubscribe[c] /\ written THEN TRUE ELSE notify[c]]

\* ------------------------------------------------------------ room: Init

RoomInit ==
  /\ now = 0
  /\ room = NoRoom
  /\ jpc = [c \in Clients |-> "idle"]
  /\ jsnap = [c \in Clients |-> NoParts]
  /\ jts = [c \in Clients |-> 0]
  /\ lpc = [c \in Clients |-> "idle"]
  /\ lsnap = [c \in Clients |-> NoParts]
  /\ mounted = [c \in Clients |-> FALSE]
  /\ joins = 0
  /\ leaves = 0
  /\ heartbeatInterval = [c \in Clients |-> FALSE]
  /\ participantUnsubscribe = [c \in Clients |-> FALSE]
  /\ notify = [c \in Clients |-> FALSE]
  /\ result = [c \in Clients |-> "none"]
  /\ roomError = [c \in Clients |-> "null"]
  /\ canAccessRoom = [c \in Clients |-> FALSE]

\* --------------------------------------------------------- room: actions

\* the wall clock advances by one heartbeat interval
Tick ==
  /\ now < MaxTime * TickMs
  /\ now' = now + TickMs
  /\ UNCHANGED <<room, jpc, jsnap, jts, lpc, lsnap, mounted, joins, leaves,
                 heartbeatInterval, participantUnsubscribe, notify,
                 result, roomError, canAccessRoom>>
  /\ UNCHANGED notRoomVars

\* useMessages join effect runs: joinRoom() is called and awaits getDoc
JoinStart(c) ==
  /\ ~mounted[c]
  /\ jpc[c] = "idle"
  /\ joins < MaxJoins
  /\ mounted' = [mounted EXCEPT ![c] = TRUE]
  /\ joins' = joins + 1
  /\ jpc' = [jpc EXCEPT ![c] = "getDoc"]
  /\ result' = [result EXCEPT ![c] = "pending"]
  /\ UNCHANGED <<now, room, jsnap, jts, lpc, lsnap, leaves, heartbeatInterval,
                 participantUnsubscribe, notify, roomError, canAccessRoom>>
  /\ UNCHANGED notRoomVars

\* joinRoom 47: this device is already among the active participants
IsRejoin_Never(active, id) == FALSE

IsRejoin(active, id) == active[id] # Absent

\* joinRoom 55: the room-full test on the filtered snapshot
RoomIsFull_OffByOne(active) == Cardinality(Keys(active)) > 2

RoomIsFull(active) == Cardinality(Keys(active)) >= 2

\* joinRoom 56-61 returns the room-full failure at once and the effect
\* stores the error and revokes access (useMessages 66-71); nothing is
\* written, no timer is set and no listener is attached
Rejected_StartsHeartbeat(c) ==
  /\ jpc' = [jpc EXCEPT ![c] = "idle"]
  /\ result' = [result EXCEPT ![c] = "full"]
  /\ roomError' = [roomError EXCEPT ![c] = "full"]
  /\ canAccessRoom' = [canAccessRoom EXCEPT ![c] = FALSE]
  /\ heartbeatInterval' = [heartbeatInterval EXCEPT ![c] = TRUE]
  /\ UNCHANGED <<room, jsnap, jts, participantUnsubscribe, notify>>

Rejected(c) ==
  /\ jpc' = [jpc EXCEPT ![c] = "idle"]
  /\ result' = [result EXCEPT ![c] = "full"]
  /\ roomError' = [roomError EXCEPT ![c] = "full"]
  /\ canAccessRoom' = [canAccessRoom EXCEPT ![c] = FALSE]
  /\ UNCHANGED <<room, jsnap, jts, heartbeatInterval, participantUnsubscribe, notify>>

\* joinRoom: getDoc resolved; filter, rejoin test, capacity test, and the
\* write chosen is issued (lines 30-89)
JoinCheck(c) ==
  LET id == generateUserIdentifier(c)
      active == ActiveParticipants(room.parts, now)
  IN
  /\ jpc[c] = "getDoc"
  /\ IF room.exists
       THEN IF IsRejoin(active, id)
              THEN /\ jpc' = [jpc EXCEPT ![c] = "rejoinUpdate"]
                   /\ jts' = [jts EXCEPT ![c] = now]
                   /\ UNCHANGED <<room, jsnap, result, roomError, canAccessRoom,
                                  heartbeatInterval, participantUnsubscribe, notify>>
              ELSE IF RoomIsFull(active)
                     THEN Rejected(c)
                     ELSE /\ jpc' = [jpc EXCEPT ![c] = "setMerge"]
                          /\ jsnap' = [jsnap EXCEPT ![c] = [active EXCEPT ![id] = now]]
                          /\ UNCHANGED <<room, jts, result, roomError, canAccessRoom,
                                         heartbeatInterval, participantUnsubscribe, notify>>
       ELSE /\ jpc' = [jpc EXCEPT ![c] = "setCreate"]
            /\ jsnap' = [jsnap EXCEPT ![c] = [NoParts EXCEPT ![id] = now]]
            /\ UNCHANGED <<room, jts, result, roomError, canAccessRoom,
                           heartbeatInterval, participantUnsubscribe, notify>>
  /\ UNCHANGED <<now, lpc, lsnap, mounted, joins, leaves>>
  /\ UNCHANGED notRoomVars

\* joinRoom returned success: startHeartbeat (123-138) has set the timer
\* (its immediate updatePresence is part of the landing step); the effect
\* clears the error, grants access and attaches the participants listener
\* (useMessages 73-87), whose first snapshot is scheduled.
Accepted(c, res, written) ==
  /\ jpc' = [jpc EXCEPT ![c] = "idle"]
  /\ heartbeatInterval' = [heartbeatInterval EXCEPT ![c] = TRUE]
  /\ result' = [result EXCEPT ![c] = res]
  /\ roomError' = [roomError EXCEPT ![c] = "null"]
  /\ canAccessRoom' = [canAccessRoom EXCEPT ![c] = TRUE]
  /\ participantUnsubscribe' = [participantUnsubscribe EXCEPT ![c] = TRUE]
  /\ notify' = [Notified(written) EXCEPT ![c] = TRUE]

\* startHeartbeat 136-137: the immediate updatePresence, at time t
StartHeartbeatWrite(r, c, t) == UpdatePresenceDoc(r, generateUserIdentifier(c), t)

\* joinRoom rejoin branch: the awaited updatePresence write is served (49-51)
JoinRejoinLand(c) ==
  /\ jpc[c] = "rejoinUpdate"
  /\ room' = StartHeartbeatWrite(UpdatePresenceDoc(room, generateUserIdentifier(c), jts[c]), c, now)
  /\ Accepted(c, "rejoin", room.exists)
  /\ jts' = [jts EXCEPT ![c] = 0]
  /\ UNCHANGED <<now, jsnap, lpc, lsnap, mounted, joins, leaves>>
  /\ UNCHANGED notRoomVars

\* joinRoom: the awaited setDoc is served, merge (70-73) or create (79-89)
JoinSetLand(c) ==
  /\ jpc[c] \in {"setMerge", "setCreate"}
  /\ room' = StartHeartbeatWrite(IF jpc[c] = "setMerge" THEN SetDocMerge(room, jsnap[c])
                                                       ELSE SetDocCreate(jsnap[c]), c, now)
  /\ Accepted(c, "accepted", TRUE)
  /\ jsnap' = [jsnap EXCEPT ![c] = NoParts]
  /\ UNCHANGED <<now, jts, lpc, lsnap, mounted, joins, leaves>>
  /\ UNCHANGED notRoomVars

\* the interval timer fires: updatePresence writes lastSeen = Date.now()
HeartbeatFire(c) ==
  /\ heartbeatInterval[c]
  /\ room' = UpdatePresenceDoc(room, generateUserIdentifier(c), now)
  /\ room' # room
  /\ notify' = Notified(room.exists)
  /\ UNCHANGED <<now, jpc, jsnap, jts, lpc, lsnap, mounted, joins, leaves,
                 heartbeatInterval, participantUnsubscribe,
                 result, roomError, canAccessRoom>>
  /\ UNCHANGED notRoomVars

\* listenToParticipants callback (191-209) and the hook's onUpdate (78-87)
Observe_ReportsFull(c) ==
  LET id == generateUserIdentifier(c)
      active == ActiveParticipants(room.parts, now)
  IN
  /\ participantUnsubscribe[c]
  /\ notify[c]
  /\ notify' = [notify EXCEPT ![c] = FALSE]
  /\ IF room.exists /\ active[id] = Absent
       THEN /\ roomError' = [roomError EXCEPT ![c] = "full"]
            /\ canAccessRoom' = [canAccessRoom EXCEPT ![c] = FALSE]
       ELSE UNCHANGED <<roomError, canAccessRoom>>
  /\ UNCHANGED <<now, room, jpc, jsnap, jts, lpc, lsnap, mounted, joins, leaves,
                 heartbeatInterval, participantUnsubscribe, result>>
  /\ UNCHANGED notRoomVars

Observe(c) ==
  LET id == generateUserIdentifier(c)
      active == ActiveParticipants(room.parts, now)
  IN
  /\ participantUnsubscribe[c]
  /\ notify[c]
  /\ notify' = [notify EXCEPT ![c] = FALSE]
  /\ IF room.exists /\ active[id] = Absent
       THEN /\ roomError' = [roomError EXCEPT ![c] = "removed"]
            /\ canAccessRoom' = [canAccessRoom EXCEPT ![c] = FALSE]
       ELSE UNCHANGED <<roomError, canAccessRoom>>
  /\ UNCHANGED <<now, room, jpc, jsnap, jts, lpc, lsnap, mounted, joins, leaves,
                 heartbeatInterval, participantUnsubscribe, result>>
  /\ UNCHANGED notRoomVars

\* effect cleanup (93-96): chatRoomManager.cleanup stops the timer and the
\* listener and calls leaveRoom, which awaits getDoc (150-157)
CleanupEffect(c) ==
  /\ mounted[c]
  /\ lpc[c] = "idle"
  /\ leaves' = leaves + 1
  /\ mounted' = [mounted EXCEPT ![c] = FALSE]
  /\ heartbeatInterval' = [heartbeatInterval EXCEPT ![c] = FALSE]
  /\ participantUnsubscribe' = [participantUnsubscribe EXCEPT ![c] = FALSE]
  /\ notify' = [notify EXCEPT ![c] = FALSE]
  /\ canAccessRoom' = [canAccessRoom EXCEPT ![c] = FALSE]
  /\ lpc' = [lpc EXCEPT ![c] = "getDoc"]
  /\ UNCHANGED <<now, room, jpc, jsnap, jts, lsnap, joins,
                 result, roomError>>
  /\ UNCHANGED notRoomVars

\* the cleanup, while the number of cleanups explored is not used up
Cleanup(c) ==
  /\ leaves < MaxLeaves
  /\ CleanupEffect(c)

\* leaveRoom: getDoc resolved; own entry deleted from the local copy and the
\* write chosen is issued (159-176)
LeaveRead(c) ==
  LET participants == [room.parts EXCEPT ![generateUserIdentifier(c)] = Absent]
  IN
  /\ lpc[c] = "getDoc"
  /\ IF room.exists
       THEN IF Keys(participants) = {}
              THEN lpc' = [lpc EXCEPT ![c] = "deleteDoc"] /\ UNCHANGED lsnap
              ELSE /\ lpc' = [lpc EXCEPT ![c] = "setMerge"]
                   /\ lsnap' = [lsnap EXCEPT ![c] = participants]
       ELSE lpc' = [lpc EXCEPT ![c] = "idle"] /\ UNCHANGED lsnap
  /\ UNCHANGED <<now, room, jpc, jsnap, jts, mounted, joins, leaves,
                 heartbeatInterval, participantUnsubscribe, notify,
                 result, roomError, canAccessRoom>>
  /\ UNCHANGED notRoomVars

\* leaveRoom: what the awaited write does to the document
LeaveWrite(r, pc, parts) ==
  IF pc = "deleteDoc" THEN NoRoom ELSE SetDocMerge(r, parts)

\* leaveRoom: the awaited deleteDoc or setDoc is served
LeaveLand(c) ==
  /\ lpc[c] \in {"deleteDoc", "setMerge"}
  /\ room' = LeaveWrite(room, lpc[c], lsnap[c])
  /\ notify' = Notified(lpc[c] = "setMerge" \/ room.exists)
  /\ lpc' = [lpc EXCEPT ![c] = "idle"]
  /\ lsnap' = [lsnap EXCEPT ![c] = NoParts]
  /\ UNCHANGED <<now, jpc, jsnap, jts, mounted, joins, leaves,
                 heartbeatInterval, participantUnsubscribe,
                 result, roomError, canAccessRoom>>
  /\ UNCHANGED notRoomVars

\* ------------------------------------------------------------ send: Init

SendInit ==
  /\ spc = "idle"
  /\ signal = FALSE
  /\ abortedAt = "none"
  /\ totalChunks = 0
  /\ encChunks = 0
  /\ encAtAbort = 0
  /\ workerQueue = <<>>
  /\ workerBusy = FALSE
  /\ uiProgress = 0
  /\ upAborted = FALSE
  /\ upListening = FALSE
  /\ upHandlers = FALSE
  /\ upStream = "none"
  /\ upTimer = FALSE
  /\ upResult = "none"
  /\ outcome = "none"

\* Math.round(a / b) for a >= 0, b > 0
Round(a, b) == (2 * a + b) \div (2 * b)

\* worker encryptFile 447-449: Math.round(((i + 1) / totalChunks) * 100)
ChunkProgress(done, total) == Round(done * 100, total)

\* addMessage 233: Math.round(5 + encryptProgress * 0.10)
EncryptTotalProgress(p) == Round(50 + p, 10)

\* addMessage 258: Math.round(15 + uploadProgress * 0.84)
UploadTotalProgress(p) == Round(1500 + 84 * p, 100)

\* percentages the upload stream reports
UploadSteps == {50, 100}

\* addMessage catch (308-316): an error named 'Upload cancelled' resolves
\* cancelled, every other error resolves with the error
Caught(message) == IF message = "Upload cancelled" THEN "cancelled" ELSE "error"

\* uploadFile catch (281-293): the result returned for a caught error
UploadCaught(message, sig) ==
  IF message = "Upload cancelled" \/ sig THEN "cancelled" ELSE "error"

\* addMessage 264-266: a result without success is thrown as 'File upload failed'
AfterUpload(res) == IF res = "success" THEN "continue" ELSE Caught("File upload failed")

\* uploadFile abortHandler (145-163)
AbortHandler ==
  /\ upAborted' = TRUE
  /\ upHandlers' = IF upAborted THEN upHandlers ELSE FALSE
  /\ upStream' = IF upAborted \/ upStream = "none" THEN upStream ELSE "destroyed"

\* --------------------------------------------------------- send: actions

\* what the addMessage closure captured of the hook state (useCallback deps,
\* line 317): canAccessRoom, roomError, and whether sharedSecret, chatRoomId
\* and userIdentifier are all set. canAccessRoom is only ever true with
\* roomError null (join effect 66-86).
HookStates ==
  {[can |-> TRUE, err |-> "null", setup |-> TRUE],
   [can |-> FALSE, err |-> "null", setup |-> TRUE],
   [can |-> FALSE, err |-> "full", setup |-> TRUE],
   [can |-> FALSE, err |-> "removed", setup |-> TRUE],
   [can |-> FALSE, err |-> "null", setup |-> FALSE]}

\* addMessage 159-169: the three throws that precede the try block
Precheck(h) ==
  IF ~h.can THEN "thrown"
  ELSE IF h.err # "null" THEN "thrown"
  ELSE IF ~h.setup THEN "thrown"
  ELSE "ok"

\* addMessage called (158-213): the pre-checks, then a text message goes on
\* to sendMessageWithFile (281-297) and a file of n chunks to the FileReader
StartSend(n, h, hasFile) ==
  /\ spc = "idle"
  /\ IF Precheck(h) = "thrown"
       THEN /\ spc' = "done"
            /\ outcome' = "thrown"
            /\ UNCHANGED <<totalChunks, uiProgress>>
       ELSE IF hasFile
              THEN /\ totalChunks' = n
                   /\ spc' = "reading"
                   /\ UNCHANGED <<outcome, uiProgress>>
              ELSE /\ spc' = "sending"
                   /\ uiProgress' = 99
                   /\ UNCHANGED <<totalChunks, outcome>>
  /\ UNCHANGED <<signal, abortedAt, encChunks, encAtAbort, workerQueue,
                 workerBusy, upAborted, upListening, upHandlers,
                 upStream, upTimer, upResult>>
  /\ UNCHANGED notSendVars

\* the caller aborts the AbortController; a registered abortHandler runs
Abort ==
  /\ ~signal
  /\ spc \notin {"idle", "done"}
  /\ signal' = TRUE
  /\ abortedAt' = spc
  /\ encAtAbort' = encChunks
  /\ IF upListening THEN AbortHandler ELSE UNCHANGED <<upAborted, upHandlers, upStream>>
  /\ UNCHANGED <<spc, totalChunks, encChunks, workerQueue, workerBusy,
                 uiProgress, upListening, upTimer, upResult, outcome>>
  /\ UNCHANGED notSendVars

\* reader.onload: the file is read; cancel check, then encryptFileAsync posts
\* the request to the worker (207-236, encryption.js 221-248)
ReadDone ==
  /\ spc = "reading"
  /\ IF signal
       THEN /\ spc' = "done"
            /\ outcome' = Caught("Upload cancelled")
            /\ UNCHANGED <<workerBusy, uiProgress>>
       ELSE /\ spc' = "encrypting"
            /\ workerBusy' = TRUE
            /\ uiProgress' = 5
            /\ UNCHANGED outcome
  /\ UNCHANGED <<signal, abortedAt, totalChunks, encChunks, encAtAbort,
                 workerQueue, upAborted, upListening, upHandlers, upStream,
                 upTimer, upResult>>
  /\ UNCHANGED notSendVars

\* worker encryptFile loop body (430-450): one chunk encrypted, progress posted
WorkerEncryptChunk ==
  /\ workerBusy
  /\ encChunks < totalChunks
  /\ encChunks' = encChunks + 1
  /\ workerQueue' = Append(workerQueue, ChunkProgress(encChunks + 1, totalChunks))
  /\ UNCHANGED <<spc, signal, abortedAt, totalChunks, encAtAbort, workerBusy,
                 uiProgress, upAborted, upListening, upHandlers, upStream,
                 upTimer, upResult, outcome>>
  /\ UNCHANGED notSendVars

\* worker: the loop ended, the result is posted (452-458, 543-548)
WorkerComplete ==
  /\ workerBusy
  /\ encChunks = totalChunks
  /\ workerBusy' = FALSE
  /\ workerQueue' = Append(workerQueue, -1)
  /\ UNCHANGED <<spc, signal, abortedAt, totalChunks, encChunks, encAtAbort,
                 uiProgress, upAborted, upListening, upHandlers, upStream,
                 upTimer, upResult, outcome>>
  /\ UNCHANGED notSendVars

\* page: cryptoWorker.onmessage 'progress' (183-187) runs addMessage's
\* callback (228-235); its throw on abort is an uncaught error of the handler
PageProgress ==
  /\ workerQueue # <<>>
  /\ Head(workerQueue) # -1
  /\ workerQueue' = Tail(workerQueue)
  /\ uiProgress' = IF signal THEN uiProgress ELSE EncryptTotalProgress(Head(workerQueue))
  /\ UNCHANGED <<spc, signal, abortedAt, totalChunks, encChunks, encAtAbort,
                 workerBusy, upAborted, upListening, upHandlers, upStream,
                 upTimer, upResult, outcome>>
  /\ UNCHANGED notSendVars

\* page: 'complete' resolves encryptFileAsync; cancel check (238-241), then
\* uploadFile starts and awaits ensureReady (101-118)
PageComplete ==
  /\ workerQueue # <<>>
  /\ Head(workerQueue) = -1
  /\ workerQueue' = Tail(workerQueue)
  /\ IF signal
       THEN /\ spc' = "done"
            /\ outcome' = Caught("Upload cancelled")
       ELSE /\ spc' = "ensureReady"
            /\ UNCHANGED outcome
  /\ UNCHANGED <<signal, abortedAt, totalChunks, encChunks, encAtAbort,
                 workerBusy, uiProgress, upAborted, upListening, upHandlers,
                 upStream, upTimer, upResult>>
  /\ UNCHANGED notSendVars

\* uploadFile: ensureReady resolved or threw; cancel checks, stream created,
\* abort listener and stream handlers registered, data written (118-242)
UploadReady(ok) ==
  /\ spc = "ensureReady"
  /\ IF ok /\ ~signal
       THEN /\ spc' = "uploading"
            /\ upStream' = "open"
            /\ upListening' = TRUE
            /\ upHandlers' = TRUE
            /\ upTimer' = TRUE
            /\ UNCHANGED <<upResult, outcome>>
       ELSE /\ upResult' = UploadCaught(IF ok THEN "Upload cancelled" ELSE "init failed", signal)
            /\ outcome' = AfterUpload(upResult')
            /\ spc' = "done"
            /\ UNCHANGED <<upStream, upListening, upHandlers, upTimer>>
  /\ UNCHANGED <<signal, abortedAt, totalChunks, encChunks, encAtAbort,
                 workerQueue, workerBusy, uiProgress, upAborted>>
  /\ UNCHANGED notSendVars

\* stream 'progress' (170-182) with addMessage's callback (253-260)
StreamProgress(p) ==
  /\ spc = "uploading"
  /\ upStream = "open"
  /\ upHandlers
  /\ IF upAborted \/ signal
       THEN AbortHandler /\ UNCHANGED uiProgress
       ELSE /\ uiProgress' = UploadTotalProgress(p)
            /\ UNCHANGED <<upAborted, upHandlers, upStream>>
  /\ UNCHANGED <<spc, signal, abortedAt, totalChunks, encChunks, encAtAbort,
                 workerQueue, workerBusy, upListening, upTimer, upResult, outcome>>
  /\ UNCHANGED notSendVars

\* stream 'complete' (206-218): the promise resolves, the abort listener is
\* removed, final check, file.link() is awaited (244-256)
StreamComplete ==
  /\ spc = "uploading"
  /\ upStream = "open"
  /\ upHandlers
  /\ upTimer' = FALSE
  /\ upListening' = FALSE
  /\ IF upAborted \/ signal
       THEN /\ upResult' = UploadCaught("Upload cancelled", signal)
            /\ outcome' = AfterUpload(upResult')
            /\ upStream' = "destroyed"
            /\ upHandlers' = FALSE
            /\ spc' = "done"
       ELSE /\ spc' = "link"
            /\ upStream' = "closed"
            /\ UNCHANGED <<upHandlers, upResult, outcome>>
  /\ UNCHANGED <<signal, abortedAt, totalChunks, encChunks, encAtAbort,
                 workerQueue, workerBusy, uiProgress, upAborted>>
  /\ UNCHANGED notSendVars

\* stream 'error' (221-230): the promise rejects, the catch cleans up
StreamError ==
  /\ spc = "uploading"
  /\ upStream = "open"
  /\ upHandlers
  /\ upTimer' = FALSE
  /\ upResult' = UploadCaught(IF upAborted \/ signal THEN "Upload cancelled" ELSE "stream error", signal)
  /\ outcome' = AfterUpload(upResult')
  /\ upStream' = "destroyed"
  /\ upHandlers' = FALSE
  /\ spc' = "done"
  /\ UNCHANGED <<signal, abortedAt, totalChunks, encChunks, encAtAbort,
                 workerQueue, workerBusy, uiProgress, upAborted, upListening>>
  /\ UNCHANGED notSendVars

\* stream 'close' (233-240): the timeout is cleared; the promise is rejected
\* only when the upload was aborted
StreamClose ==
  /\ spc = "uploading"
  /\ upStream = "open"
  /\ upHandlers
  /\ upTimer' = FALSE
  /\ IF upAborted \/ signal
       THEN /\ upResult' = UploadCaught("Upload cancelled", signal)
            /\ outcome' = AfterUpload(upResult')
            /\ upStream' = "destroyed"
            /\ upHandlers' = FALSE
            /\ spc' = "done"
       ELSE /\ upStream' = "closed"
            /\ UNCHANGED <<upHandlers, upResult, outcome, spc>>
  /\ UNCHANGED <<signal, abortedAt, totalChunks, encChunks, encAtAbort,
                 workerQueue, workerBusy, uiProgress, upAborted, upListening>>
  /\ UNCHANGED notSendVars

\* the 10 minute timeout fires (199-204): abortHandler, reject, catch
UploadTimeout ==
  /\ spc = "uploading"
  /\ upTimer
  /\ upTimer' = FALSE
  /\ upAborted' = TRUE
  /\ upHandlers' = FALSE
  /\ upStream' = "destroyed"
  /\ upResult' = UploadCaught("Upload timeout after 10 minutes", signal)
  /\ outcome' = AfterUpload(upResult')
  /\ spc' = "done"
  /\ UNCHANGED <<signal, abortedAt, totalChunks, encChunks, encAtAbort,
                 workerQueue, workerBusy, uiProgress, upListening>>
  /\ UNCHANGED notSendVars

\* file.link() resolved or threw; uploadFile returns; addMessage checks the
\* signal and awaits sendMessageWithFile (256-297)
LinkDone(ok) ==
  /\ spc = "link"
  /\ upResult' = IF ok THEN "success" ELSE UploadCaught("link failed", signal)
  /\ IF AfterUpload(upResult') = "continue"
       THEN IF signal
              THEN /\ spc' = "done"
                   /\ outcome' = Caught("Upload cancelled")
                   /\ uiProgress' = 99
              ELSE /\ spc' = "sending"
                   /\ uiProgress' = 99
                   /\ UNCHANGED outcome
       ELSE /\ spc' = "done"
            /\ outcome' = AfterUpload(upResult')
            /\ UNCHANGED uiProgress
  /\ UNCHANGED <<signal, abortedAt, totalChunks, encChunks, encAtAbort,
                 workerQueue, workerBusy, upAborted, upListening, upHandlers,
                 upStream, upTimer>>
  /\ UNCHANGED notSendVars

\* sendMessageWithFile resolved (292-307)
SendDone(ok) ==
  /\ spc = "sending"
  /\ spc' = "done"
  /\ outcome' = IF ok THEN "success" ELSE Caught("Failed to send to Firebase")
  /\ uiProgress' = IF ok THEN 100 ELSE uiProgress
  /\ UNCHANGED <<signal, abortedAt, totalChunks, encChunks, encAtAbort,
                 workerQueue, workerBusy, upAborted, upListening, upHandlers,
                 upStream, upTimer, upResult>>
  /\ UNCHANGED notSendVars

\* ------------------------------------------------- file: pure functions

\* byte values the files are made of
FileByteValues == {0, 255}

RECURSIVE SeqsUpTo(_, _)
SeqsUpTo(S, n) ==
  IF n = 0 THEN {<<>>}
  ELSE LET shorter == SeqsUpTo(S, n - 1)
       IN shorter \cup {Append(q, x) : q \in {r \in shorter : Len(r) = n - 1}, x \in S}

\* the shared secrets in play, as the base64 strings the hooks hold
FileKeys == {uint8ArrayToBase64(<<3, 1, 4, 1>>), uint8ArrayToBase64(<<2, 7, 1, 8>>)}

\* nonces nacl.randomBytes can return
Nonces == {<<1, 2, 3>>, <<250, 9, 77>>}

\* worker encryptFile loop body (430-444): chunk i (from 0) of fileBytes
EncryptChunk_SkipsFirstByte(bytes, i, size, nonce, secretKey) ==
  LET start == i * size + 1
      end == Min(i * size + size, Len(bytes))
      chunk == SubSeq(bytes, start + 1, end)
  IN [nonce |-> uint8ArrayToBase64(nonce),
      data |-> uint8ArrayToBase64(secretbox(chunk, nonce, secretKey))]

EncryptChunk(bytes, i, size, nonce, secretKey) ==
  LET start == i * size
      end == Min(start + size, Len(bytes))
      chunk == SubSeq(bytes, start + 1, end)
  IN [nonce |-> uint8ArrayToBase64(nonce),
      data |-> uint8ArrayToBase64(secretbox(chunk, nonce, secretKey))]

\* worker encryptFile (413-465) on base64 fileData, with the nonces drawn
encryptFile(fileData, secret, nonces) ==
  IF secret = <<>> THEN [success |-> FALSE, chunks |-> <<>>, totalSize |-> 0]
  ELSE LET bytes == base64ToUint8Array(fileData)
           nChunks == Ceil(Len(bytes), CHUNK_SIZE)
           secretKey == base64ToUint8Array(secret)
       IN [success |-> TRUE,
           chunks |-> [i \in 1..nChunks |->
                         EncryptChunk(bytes, i - 1, CHUNK_SIZE, nonces[i], secretKey)],
           totalSize |-> Len(bytes)]

\* what a decryption ends with: the base64 data, or the failure
Failure(why) == [success |-> FALSE, data |-> <<>>, error |-> why]
Success(b64) == [success |-> TRUE, data |-> b64, error |-> "none"]

\* worker decryptFile loop (480-498): chunks i.. are opened in order and
\* pushed on decryptedChunks; the first that fails to open throws
RECURSIVE DecryptLoop_SkipsFailed(_, _, _, _)
DecryptLoop_SkipsFailed(chunks, secretKey, i, decryptedChunks) ==
  IF i > Len(chunks) THEN [ok |-> TRUE, parts |-> decryptedChunks]
  ELSE LET decrypted == secretboxOpen(base64ToUint8Array(chunks[i].data),
                                      base64ToUint8Array(chunks[i].nonce), secretKey)
       IN IF ~decrypted.ok
            THEN DecryptLoop_SkipsFailed(chunks, secretKey, i + 1, decryptedChunks)
            ELSE DecryptLoop_SkipsFailed(chunks, secretKey, i + 1,
                                         Append(decryptedChunks, decrypted.bytes))

RECURSIVE DecryptLoop(_, _, _, _)
DecryptLoop(chunks, secretKey, i, decryptedChunks) ==
  IF i > Len(chunks) THEN [ok |-> TRUE, parts |-> decryptedChunks]
  ELSE LET decrypted == secretboxOpen(base64ToUint8Array(chunks[i].data),
                                      base64ToUint8Array(chunks[i].nonce), secretKey)
       IN IF ~decrypted.ok
            THEN [ok |-> FALSE, parts |-> <<>>]
            ELSE DecryptLoop(chunks, secretKey, i + 1, Append(decryptedChunks, decrypted.bytes))

\* worker decryptFile (468-523): all chunks opened, combined, base64
decryptFile(encryptedChunks, secret) ==
  IF secret = <<>> THEN Failure("No decryption key")
  ELSE LET r == DecryptLoop(encryptedChunks, base64ToUint8Array(secret), 1, <<>>)
       IN IF r.ok THEN Success(uint8ArrayToBase64(Concat(r.parts)))
          ELSE Failure("Decryption failed - invalid key or corrupted data")

\* decryptFileAsync (252-280): resolves result.data or rejects with the error
decryptFileAsync(encryptedChunks, secret) == decryptFile(encryptedChunks, secret)

\* addMessage 243-246: the object uploaded (JSON text, base64; both lossless
\* on a list of base64 strings)
Envelope(chunks) == [chunks |-> chunks, isChunked |-> Len(chunks) > 1]

\* useMessages.downloadFile 340-381 on the downloaded envelope: the chunks to
\* decrypt are picked, decrypted, and the base64 result is turned into bytes.
\* chunks[0].chunks on an empty list is a TypeError, rethrown at 396-399.
downloadFile(env, secret) ==
  IF env.isChunked /\ Len(env.chunks) > 1
    THEN LET r == decryptFileAsync(env.chunks, secret)
         IN IF r.success THEN [ok |-> TRUE, bytes |-> base64ToUint8Array(r.data), error |-> "none"]
            ELSE [ok |-> FALSE, bytes |-> <<>>, error |-> r.error]
    ELSE IF env.chunks = <<>>
           THEN [ok |-> FALSE, bytes |-> <<>>, error |-> "TypeError"]
           ELSE LET r == decryptFileAsync(<<env.chunks[1]>>, secret)
                IN IF r.success
                     THEN [ok |-> TRUE, bytes |-> base64ToUint8Array(r.data), error |-> "none"]
                     ELSE [ok |-> FALSE, bytes |-> <<>>, error |-> r.error]

\* encryptFileStreaming (425-485) on the bytes of the file
encryptFileStreaming(bytes, secret, nonces) ==
  LET nChunks == Ceil(Len(bytes), STREAM_CHUNK_SIZE)
      secretKey == base64ToUint8Array(secret)
  IN [chunks |-> [i \in 1..nChunks |->
                    LET c == EncryptChunk(bytes, i - 1, STREAM_CHUNK_SIZE, nonces[i], secretKey)
                    IN [data |-> c.data, nonce |-> c.nonce, index |-> i - 1,
                        size |-> Len(base64ToUint8Array(c.data))]],
      totalChunks |-> nChunks,
      originalSize |-> Len(bytes),
      chunkSize |-> STREAM_CHUNK_SIZE]

\* decryptFileStreaming (490-538): chunks 0..totalChunks-1 in list order
decryptFileStreaming(encryptedData, secret) ==
  LET r == DecryptLoop(SubSeq(encryptedData.chunks, 1, encryptedData.totalChunks),
                       base64ToUint8Array(secret), 1, <<>>)
  IN IF r.ok THEN Success(uint8ArrayToBase64(Concat(r.parts)))
     ELSE Failure("Failed to decrypt file")

\* a base64 string with byte pos of the bytes it encodes changed
Corrupt(b64, pos) ==
  LET box == base64ToUint8Array(b64)
  IN uint8ArrayToBase64([box EXCEPT ![pos] = (@ + 1) % 256])

\* ------------------------------------------------------------ file: Init

NoResult == [success |-> FALSE, data |-> <<>>, error |-> "pending"]
NoDownload == [ok |-> FALSE, bytes |-> <<>>, error |-> "pending"]
NoFile == [success |-> FALSE, chunks |-> <<>>, totalSize |-> 0]

FileInit ==
  /\ fpc = "input"
  /\ fileBytes = <<>>
  /\ encKey = <<>>
  /\ decKey = <<>>
  /\ encryptedFile = NoFile
  /\ stored = <<>>
  /\ decResult = NoResult
  /\ dlResult = NoDownload
  /\ streamResult = NoResult

\* --------------------------------------------------------- file: actions

\* a file is selected; the sender and the receiver each hold a shared secret
SelectFile(bytes, secret, theirs) ==
  /\ fpc = "input"
  /\ fpc' = "selected"
  /\ fileBytes' = bytes
  /\ encKey' = secret
  /\ decKey' = theirs
  /\ UNCHANGED <<encryptedFile, stored, decResult, dlResult, streamResult>>
  /\ UNCHANGED notFileVars

\* addMessage 215-246: the worker encrypts the file read as base64 and the
\* envelope is stored
EncryptFileStep(nonces) ==
  /\ fpc = "selected"
  /\ encryptedFile' = encryptFile(uint8ArrayToBase64(fileBytes), encKey, nonces)
  /\ stored' = encryptedFile'.chunks
  /\ fpc' = "encrypted"
  /\ UNCHANGED <<fileBytes, encKey, decKey, decResult, dlResult, streamResult>>
  /\ UNCHANGED notFileVars

\* the blob store or the network changes one byte of one stored chunk, in
\* its ciphertext or in its nonce
CorruptStored(i, field, pos) ==
  /\ fpc = "encrypted"
  /\ stored = encryptedFile.chunks
  /\ decResult = NoResult /\ dlResult = NoDownload
  /\ i \in 1..Len(stored)
  /\ pos \in 1..Len(base64ToUint8Array(stored[i][field]))
  /\ stored' = [stored EXCEPT ![i] = [@ EXCEPT ![field] = Corrupt(@, pos)]]
  /\ UNCHANGED <<fpc, fileBytes, encKey, decKey, encryptedFile, decResult, dlResult, streamResult>>
  /\ UNCHANGED notFileVars

\* a chunk list with chunks i and i + 1 exchanged, chunk i left out, chunk i
\* repeated
SwapAt(s, i) == [k \in 1..Len(s) |-> IF k = i THEN s[i + 1] ELSE IF k = i + 1 THEN s[i] ELSE s[k]]
DropAt(s, i) == SubSeq(s, 1, i - 1) \o SubSeq(s, i + 1, Len(s))
DupAt(s, i) == SubSeq(s, 1, i) \o SubSeq(s, i, Len(s))

\* the blob store or the network hands back the chunks of the stored
\* envelope in another order, with one missing or with one repeated; every
\* chunk itself is intact
RearrangeStored(kind, i) ==
  /\ fpc = "encrypted"
  /\ stored = encryptedFile.chunks
  /\ decResult = NoResult /\ dlResult = NoDownload
  /\ i \in 1..Len(stored)
  /\ kind = "swap" => i < Len(stored)
  /\ stored' = CASE kind = "swap" -> SwapAt(stored, i)
                  [] kind = "drop" -> DropAt(stored, i)
                  [] OTHER -> DupAt(stored, i)
  /\ stored' # stored
  /\ UNCHANGED <<fpc, fileBytes, encKey, decKey, encryptedFile, decResult, dlResult, streamResult>>
  /\ UNCHANGED notFileVars

\* the envelope downloaded: the isChunked flag the sender wrote, the chunks
\* as they come back
StoredEnvelope == [Envelope(encryptedFile.chunks) EXCEPT !.chunks = stored]

\* the worker's decryptFile runs on the stored chunks with the receiver's key
DecryptFileStep ==
  /\ fpc = "encrypted"
  /\ decResult = NoResult
  /\ decResult' = decryptFile(stored, decKey)
  /\ UNCHANGED <<fpc, fileBytes, encKey, decKey, encryptedFile, stored, dlResult, streamResult>>
  /\ UNCHANGED notFileVars

\* useMessages.downloadFile runs on the stored envelope with the receiver's key
DownloadFileStep ==
  /\ fpc = "encrypted"
  /\ dlResult = NoDownload
  /\ dlResult' = downloadFile(StoredEnvelope, decKey)
  /\ UNCHANGED <<fpc, fileBytes, encKey, decKey, encryptedFile, stored, decResult, streamResult>>
  /\ UNCHANGED notFileVars

\* the streaming pair: encryptFileStreaming, then decryptFileStreaming
StreamRoundTrip(nonces) ==
  /\ fpc = "selected"
  /\ streamResult = NoResult
  /\ streamResult' = decryptFileStreaming(encryptFileStreaming(fileBytes, encKey, nonces), decKey)
  /\ UNCHANGED <<fpc, fileBytes, encKey, decKey, encryptedFile, stored, decResult, dlResult>>
  /\ UNCHANGED notFileVars

\* -------------------------------------------------- app: pure functions

Devices == {"d1", "d2"}

\* a shared code is the sequence of its UTF-8 bytes: "secre", "secret", "s3cret!"
Codes == {<<115, 101, 99, 114, 101>>,
          <<115, 101, 99, 114, 101, 116>>,
          <<115, 51, 99, 114, 101, 116, 33>>}

\* message texts, as UTF-8 bytes: "hi", "ok!"
Texts == {<<104, 105>>}

\* setupWithCode 144: the minimum length of a code
MIN_CODE_LENGTH == 6

\* deriveKeyPairFromCode 57, 103: the seed is 32 bytes
SEED_LENGTH == 32

\* getChatRoomId 43: keyB64.substring(0, 32)
ROOM_ID_CHARS == 32

\* Stand-in for a hash function: byte i of the output is a digest of the
\* function's tag, i and the input. Functions with different tags are
\* unrelated, as SHA-256 and SHA-512 are.
Hash(tag, input) == [i \in 1..SEED_LENGTH |-> Digest(<<tag, i>> \o input) % 256]

\* crypto.subtle.digest('SHA-256', data)
Sha256(data) == Hash(1, data)

\* nacl.hash(data).slice(0, 32): the first 32 bytes of SHA-512
NaclHashSeed(data) == Hash(2, data)

\* nacl.box.keyPair.fromSecretKey(seed): the public key is a one-way
\* function of the secret key
KeyPairFromSecretKey(seed) ==
  [publicKey |-> uint8ArrayToBase64(Hash(3, seed)), secretKey |-> uint8ArrayToBase64(seed)]

\* deriveKeyPairFromCode (41-119): Web Crypto SHA-256 when crypto.subtle
\* exists and its digest resolves with 32 bytes. A rejected digest and the
\* throw on another seed length (57-59) end in the empty catch at 70-72, so
\* in those cases, as without crypto.subtle, the first 32 bytes of nacl.hash
\* are the seed
deriveKeyPairFromCode(code, hasSubtle, digest) ==
  IF hasSubtle /\ digest = "ok" THEN KeyPairFromSecretKey(Sha256(code))
  ELSE KeyPairFromSecretKey(NaclHashSeed(code))

\* generateSharedSecret (32-38): nacl.box.before(theirPublicKey, mySecretKey)
generateSharedSecret(mySecretKey, theirPublicKey) ==
  uint8ArrayToBase64(Hash(4, base64ToUint8Array(theirPublicKey) \o base64ToUint8Array(mySecretKey)))

\* setupWithCode 144: the validation
CodeTooShort_Never(code) == FALSE

CodeTooShort(code) == Len(code) < MIN_CODE_LENGTH

\* [^a-zA-Z0-9]: '+', '/' and '='
IsAlphanumeric(ch) == ch < 62

\* getChatRoomId (26-44): the first 32 characters of the base64 of the key,
\* without the non-alphanumeric ones
getChatRoomId(encryptionKey) ==
  LET keyB64 == uint8ArrayToBase64(base64ToUint8Array(encryptionKey))
  IN SelectSeq(SubSeq(keyB64, 1, Min(ROOM_ID_CHARS, Len(keyB64))), IsAlphanumeric)

\* encryptMessage (122-139): nacl.box.after is secretbox under the shared key
encryptMessage(message, secret, nonce) ==
  [nonce |-> uint8ArrayToBase64(nonce),
   ciphertext |-> uint8ArrayToBase64(secretbox(message, nonce, base64ToUint8Array(secret)))]

NullText == [kind |-> "null", chars |-> <<>>]

\* decryptMessage (142-161): the text, or null when opening fails (the
\* throw at 151 is caught at 157)
decryptMessage_NoNullCheck(encryptedData, secret) ==
  LET box == base64ToUint8Array(encryptedData.ciphertext)
      nonce == base64ToUint8Array(encryptedData.nonce)
      key == base64ToUint8Array(secret)
      ct == SubSeq(box, 3, Len(box))
  IN [kind |-> "text",
      chars |-> [i \in 1..Len(ct) |-> (ct[i] + 256 - KeyStream(i, nonce, key)) % 256]]

decryptMessage(encryptedData, secret) ==
  LET decrypted == secretboxOpen(base64ToUint8Array(encryptedData.ciphertext),
                                 base64ToUint8Array(encryptedData.nonce),
                                 base64ToUint8Array(secret))
  IN IF decrypted.ok THEN [kind |-> "text", chars |-> decrypted.bytes] ELSE NullText

\* useEncryption.decryptMessage (197-204)
useDecryptMessage(encryptedData, secret) ==
  IF secret = <<>> THEN NullText ELSE decryptMessage(encryptedData, secret)

\* subscription callback, one message (111-146): an entry with decrypted
\* true and whatever decryptMessage returned; the catch is reached only when
\* reading msg.content throws
MessageEntry(msg, id, secret) ==
  IF ~msg.hasContent
    THEN [id |-> id, text |-> [kind |-> "marker", chars |-> <<>>], decrypted |-> FALSE]
    ELSE [id |-> id, text |-> useDecryptMessage(msg, secret), decrypted |-> TRUE]

\* the documents of one room, with their positions in the collection
RoomDocs(ch, roomId) ==
  SelectSeq([i \in 1..Len(ch) |-> [ch[i] EXCEPT !.id = i]], LAMBDA m : m.room = roomId)

\* subscribeToMessages callback (108-150): every document of the room is
\* mapped to an entry, oldest first
Snapshot(ch, roomId, secret) ==
  LET docs == RoomDocs(ch, roomId)
  IN [i \in 1..Len(docs) |-> MessageEntry(docs[i], docs[i].id, secret)]

\* onSnapshot after a change of the collection: every device subscribed
\* (its room id is set) gets the new list; the callback replaces messages
Delivered(ch) ==
  [d \in Devices |-> IF chatRoomId[d] # <<>>
                       THEN Snapshot(ch, chatRoomId[d], sharedSecret[d])
                       ELSE messages[d]]

\* ------------------------------------------------------------- app: Init

NoKeys == [publicKey |-> <<>>, secretKey |-> <<>>]

AppInit ==
  /\ apc = [d \in Devices |-> "idle"]
  /\ subtle = [d \in Devices |-> TRUE]
  /\ sharedCode = [d \in Devices |-> <<>>]
  /\ myKeys = [d \in Devices |-> NoKeys]
  /\ sharedSecret = [d \in Devices |-> <<>>]
  /\ chatRoomId = [d \in Devices |-> <<>>]
  /\ derivations = 0
  /\ setupResult = [d \in Devices |-> "none"]
  /\ wire = {}
  /\ chan = <<>>
  /\ messages = [d \in Devices |-> <<>>]
  /\ digestOutcome = [d \in Devices |-> "ok"]

\* ---------------------------------------------------------- app: actions

\* handleSetupWithCode (47-58) with the code typed, on a page whose
\* environment has or lacks crypto.subtle: setupWithCode validates the
\* length (144-146) and calls deriveKeyPairFromCode
HandleSetupWithCode(d, code, hasSubtle) ==
  /\ apc[d] = "idle"
  /\ derivations < MaxSetups
  /\ sharedCode' = [sharedCode EXCEPT ![d] = code]
  /\ IF CodeTooShort(code)
       THEN /\ setupResult' = [setupResult EXCEPT ![d] = "validation"]
            /\ UNCHANGED <<apc, derivations, subtle>>
       ELSE /\ setupResult' = [setupResult EXCEPT ![d] = "pending"]
            /\ apc' = [apc EXCEPT ![d] = "deriving"]
            /\ subtle' = [subtle EXCEPT ![d] = hasSubtle]
            /\ derivations' = derivations + 1
  /\ UNCHANGED <<myKeys, sharedSecret, chatRoomId, wire, chan, messages>>
  /\ UNCHANGED digestOutcome
  /\ UNCHANGED notAppVars

\* deriveKeyPairFromCode returned: setupWithCode stores keys and secret
\* (150-162)
DeriveDone(d) ==
  LET keys == deriveKeyPairFromCode(sharedCode[d], subtle[d], digestOutcome[d]) IN
  /\ apc[d] = "deriving"
  /\ myKeys' = [myKeys EXCEPT ![d] = keys]
  /\ sharedSecret' = [sharedSecret EXCEPT ![d] = generateSharedSecret(keys.secretKey, keys.publicKey)]
  /\ setupResult' = [setupResult EXCEPT ![d] = "success"]
  /\ apc' = [apc EXCEPT ![d] = "ready"]
  /\ UNCHANGED <<subtle, sharedCode, chatRoomId, derivations, wire, chan, messages>>
  /\ digestOutcome' = [digestOutcome EXCEPT ![d] = "ok"]
  /\ UNCHANGED notAppVars

\* useMessages effects 44-50, 53-64 and 100-150: the room id is computed
\* from the shared secret, joinRoom asks Firestore for chat_rooms/<roomId>,
\* and the message subscription delivers its first snapshot
RoomEffect(d) ==
  LET roomId == getChatRoomId(sharedSecret[d]) IN
  /\ apc[d] = "ready"
  /\ chatRoomId[d] = <<>>
  /\ chatRoomId' = [chatRoomId EXCEPT ![d] = roomId]
  /\ wire' = wire \cup {[kind |-> "path", text |-> roomId]}
  /\ messages' = [messages EXCEPT ![d] = Snapshot(chan, roomId, sharedSecret[d])]
  /\ UNCHANGED <<apc, subtle, sharedCode, myKeys, sharedSecret, derivations,
                 setupResult, chan>>
  /\ UNCHANGED digestOutcome
  /\ UNCHANGED notAppVars

\* addMessage 286-297 for a text: encryptMessage, sendMessageWithFile adds
\* the document to chats/<roomId>/messages; the subscribers are notified
SendText(d, text, nonce) ==
  LET e == encryptMessage(text, sharedSecret[d], nonce) IN
  /\ apc[d] = "ready"
  /\ chatRoomId[d] # <<>>
  /\ Len(chan) < MaxMessages
  /\ chan' = Append(chan, [room |-> chatRoomId[d], hasContent |-> TRUE, id |-> 0,
                           damaged |-> FALSE,
                           ciphertext |-> e.ciphertext, nonce |-> e.nonce])
  /\ wire' = wire \cup {[kind |-> "path", text |-> chatRoomId[d]],
                        [kind |-> "ciphertext", text |-> e.ciphertext],
                        [kind |-> "nonce", text |-> e.nonce]}
  /\ messages' = Delivered(chan')
  /\ UNCHANGED <<apc, subtle, sharedCode, myKeys, sharedSecret, chatRoomId,
                 derivations, setupResult>>
  /\ UNCHANGED digestOutcome
  /\ UNCHANGED notAppVars

\* another writer adds a document without a content field to a device's room
ForeignPost(d) ==
  /\ chatRoomId[d] # <<>>
  /\ Len(chan) < MaxMessages
  /\ chan' = Append(chan, [room |-> chatRoomId[d], hasContent |-> FALSE, id |-> 0,
                           damaged |-> FALSE,
                           ciphertext |-> <<>>, nonce |-> <<>>])
  /\ messages' = Delivered(chan')
  /\ UNCHANGED <<apc, subtle, sharedCode, myKeys, sharedSecret, chatRoomId,
                 derivations, setupResult, wire>>
  /\ UNCHANGED digestOutcome
  /\ UNCHANGED notAppVars

\* a stored message document is damaged: one byte of its ciphertext changes
CorruptMessage(i) ==
  /\ i \in 1..Len(chan)
  /\ chan[i].hasContent
  /\ ~chan[i].damaged
  /\ chan' = [chan EXCEPT ![i].ciphertext = Corrupt(@, 1), ![i].damaged = TRUE]
  /\ messages' = Delivered(chan')
  /\ UNCHANGED <<apc, subtle, sharedCode, myKeys, sharedSecret, chatRoomId,
                 derivations, setupResult, wire>>
  /\ UNCHANGED digestOutcome
  /\ UNCHANGED notAppVars

\* handleDisconnect (76-85): clearEncryptionData resets the hook state
HandleDisconnect(d) ==
  /\ apc[d] = "ready"
  /\ apc' = [apc EXCEPT ![d] = "idle"]
  /\ myKeys' = [myKeys EXCEPT ![d] = NoKeys]
  /\ sharedSecret' = [sharedSecret EXCEPT ![d] = <<>>]
  /\ sharedCode' = [sharedCode EXCEPT ![d] = <<>>]
  /\ chatRoomId' = [chatRoomId EXCEPT ![d] = <<>>]
  /\ messages' = [messages EXCEPT ![d] = <<>>]
  /\ setupResult' = [setupResult EXCEPT ![d] = "none"]
  /\ UNCHANGED <<subtle, derivations, wire, chan>>
  /\ UNCHANGED digestOutcome
  /\ UNCHANGED notAppVars

\* the crypto.subtle.digest call of the derivation in progress rejects, or
\* resolves with a buffer that is not 32 bytes long
DigestFails(d, how) ==
  /\ apc[d] = "deriving"
  /\ subtle[d]
  /\ digestOutcome[d] = "ok"
  /\ digestOutcome' = [digestOutcome EXCEPT ![d] = how]
  /\ UNCHANGED <<apc, subtle, sharedCode, myKeys, sharedSecret, chatRoomId,
                 derivations, setupResult, wire, chan, messages>>
  /\ UNCHANGED notAppVars

\* ------------------------------------------------- crypto worker (page)

\* the files and keys the requests are made with
WorkerFiles == {<<0>>, <<255, 0, 255>>}

\* what encryptFileAsync and decryptFileAsync are called with: a file and
\* the shared secret (unset before setup), or the chunks of a file encrypted
\* under the first key and the receiver's shared secret
WorkerPayloads ==
  LET key == uint8ArrayToBase64(<<3, 1, 4, 1>>) IN
  {[type |-> "encrypt", fileData |-> uint8ArrayToBase64(b), encryptedChunks |-> <<>>,
    sharedSecret |-> k] : b \in WorkerFiles, k \in {key, <<>>}}
  \cup
  {[type |-> "decrypt", fileData |-> <<>>,
    encryptedChunks |-> encryptFile(uint8ArrayToBase64(b), key,
                                    [i \in 1..Len(b) |-> <<1, 2, 3>>]).chunks,
    sharedSecret |-> k] : b \in WorkerFiles, k \in FileKeys}

WorkerInit ==
  /\ messageId = 0
  /\ workerCallbacks = {}
  /\ requests = <<>>
  /\ workerInbox = <<>>
  /\ pageInbox = <<>>
  /\ progressSeen = <<>>
  /\ settled = <<>>
  /\ cancelRequested = {}

\* encryptFileAsync / decryptFileAsync (221-280): a fresh id, the callbacks
\* stored under it, the request posted to the worker
RequestAsync(p) ==
  /\ messageId < MaxRequests
  /\ messageId' = messageId + 1
  /\ workerCallbacks' = workerCallbacks \cup {messageId}
  /\ requests' = Append(requests, p)
  /\ workerInbox' = Append(workerInbox, [type |-> p.type, id |-> messageId, payload |-> p])
  /\ progressSeen' = Append(progressSeen, -1)
  /\ settled' = Append(settled, <<>>)
  /\ UNCHANGED pageInbox
  /\ UNCHANGED cancelRequested
  /\ UNCHANGED notWorkerVars

\* the result object the worker's encryptFile / decryptFile returns
WorkerResult(type, payload, nonce) ==
  IF type = "encrypt"
    THEN LET r == encryptFile(payload.fileData, payload.sharedSecret,
                              [i \in 1..(Len(payload.fileData) + 1) |-> nonce])
         IN IF r.success
              THEN [success |-> TRUE, data |-> [chunks |-> r.chunks, totalSize |-> r.totalSize],
                    error |-> "none"]
              ELSE [success |-> FALSE, data |-> <<>>, error |-> "No encryption key"]
    ELSE decryptFile(payload.encryptedChunks, payload.sharedSecret)

\* the progress messages the worker posts while it computes the result
WorkerProgress(type, id, res) ==
  LET n == IF ~res.success THEN 0
           ELSE IF type = "encrypt" THEN Len(res.data.chunks)
           ELSE Ceil(Len(base64ToUint8Array(res.data)), CHUNK_SIZE)
  IN [i \in 1..n |-> [type |-> "progress", id |-> id, progress |-> ChunkProgress(i, n),
                      result |-> <<>>]]

\* self.onmessage (526-583): the request is computed to its end, the
\* progress messages and then the final result are posted with the
\* request's id
WorkerOnMessage(nonce) ==
  /\ workerInbox # <<>>
  /\ LET m == Head(workerInbox)
         res == WorkerResult(m.type, m.payload, nonce)
     IN pageInbox' = pageInbox \o WorkerProgress(m.type, m.id, res)
                       \o <<[type |-> "complete", id |-> m.id, progress |-> 100,
                             result |-> res]>>
  /\ workerInbox' = Tail(workerInbox)
  /\ UNCHANGED <<messageId, workerCallbacks, requests, progressSeen, settled>>
  /\ UNCHANGED cancelRequested
  /\ UNCHANGED notWorkerVars

\* onComplete of a request (227-233, 258-264): resolve with result.data or
\* reject with result.error; others are the ids left in the map
Settlement(res, others) ==
  IF res.success THEN [kind |-> "resolved", value |-> res.data, others |-> others]
  ELSE [kind |-> "rejected", value |-> res.error, others |-> others]

\* cryptoWorker.onmessage (176-203): the callbacks are looked up by the id
\* of the message; 'complete' deletes the entry and settles the promise
PageOnMessage_OldestCallback ==
  /\ pageInbox # <<>>
  /\ pageInbox' = Tail(pageInbox)
  /\ LET m == Head(pageInbox)
         id == CHOOSE i \in workerCallbacks : \A j \in workerCallbacks : i <= j
     IN IF workerCallbacks = {}
          THEN UNCHANGED <<workerCallbacks, progressSeen, settled>>
          ELSE IF m.type = "progress"
                 THEN /\ progressSeen' = [progressSeen EXCEPT ![id + 1] = m.progress]
                      /\ UNCHANGED <<workerCallbacks, settled>>
                 ELSE /\ workerCallbacks' = workerCallbacks \ {id}
                      /\ settled' = [settled EXCEPT ![id + 1] =
                                       Append(@, Settlement(m.result, workerCallbacks'))]
                      /\ UNCHANGED progressSeen
  /\ UNCHANGED <<messageId, requests, workerInbox>>
  /\ UNCHANGED cancelRequested
  /\ UNCHANGED notWorkerVars

PageOnMessage ==
  /\ pageInbox # <<>>
  /\ pageInbox' = Tail(pageInbox)
  /\ LET m == Head(pageInbox)
     IN IF m.id \notin workerCallbacks
          THEN UNCHANGED <<workerCallbacks, progressSeen, settled>>
          ELSE IF m.type = "progress"
                 THEN /\ progressSeen' = [progressSeen EXCEPT ![m.id + 1] = m.progress]
                      /\ UNCHANGED <<workerCallbacks, settled>>
                 ELSE /\ workerCallbacks' = workerCallbacks \ {m.id}
                      /\ settled' = [settled EXCEPT ![m.id + 1] =
                                       Append(@, Settlement(m.result, workerCallbacks'))]
                      /\ UNCHANGED progressSeen
  /\ UNCHANGED <<messageId, requests, workerInbox>>
  /\ UNCHANGED cancelRequested
  /\ UNCHANGED notWorkerVars

\* cryptoWorker.onerror (205-214): every pending request is rejected and the
\* map is cleared
WorkerOnError ==
  /\ workerCallbacks # {}
  /\ settled' = [i \in 1..Len(settled) |->
                   IF (i - 1) \in workerCallbacks
                     THEN Append(settled[i], [kind |-> "rejected", value |-> "Worker error",
                                              others |-> {}])
                     ELSE settled[i]]
  /\ workerCallbacks' = {}
  /\ UNCHANGED <<messageId, requests, workerInbox, pageInbox, progressSeen>>
  /\ UNCHANGED cancelRequested
  /\ UNCHANGED notWorkerVars

\* the caller of a pending decryptFileAsync gives up the download: the
\* function takes the chunks, the secret and onProgress only, so nothing
\* reaches the request or the worker
CallerCancels(id) ==
  /\ id \in workerCallbacks \ cancelRequested
  /\ requests[id + 1].type = "decrypt"
  /\ cancelRequested' = cancelRequested \cup {id}
  /\ UNCHANGED <<messageId, workerCallbacks, requests, workerInbox, pageInbox,
                 progressSeen, settled>>
  /\ UNCHANGED notWorkerVars

\* ------------------------------------------- session: TogetherChat screens

\* One page of the application: the TogetherChat component with its
\* useEncryption and useMessages hooks. The room is seen from this page: the
\* page's own membership and the set of other active participants. React
\* runs an effect right after the state change that triggers it, so an
\* effect is part of the step of its trigger; the awaited joinRoom call and
\* the blocking alert of the room-error effect end in steps of their own.

MaxPending == 2

SessSelf == generateUserIdentifier("c1")

OtherIds == Ids \ {SessSelf}

\* the items handleSetupWithCode stores
SetupItems ==
  {"togetherUserName", "togetherUserIdentifier", "togetherSharedCode", "togetherMyKeys",
   "togetherTheirPublicKey", "togetherSharedSecret", "togetherKeyMethod"}

\* the items clearEncryptionData removes
EncryptionItems ==
  {"togetherUserName", "togetherMyKeys", "togetherTheirPublicKey",
   "togetherSharedSecret", "togetherKeyMethod"}

\* the active participants a joinRoom of this page reads
SessActive ==
  [i \in Ids |-> IF i \in otherUsers \/ (i = SessSelf /\ inRoom) THEN 0 ELSE Absent]

SessInit ==
  /\ step = "welcome"
  /\ userIdentifier = FALSE
  /\ localStorage = {}
  /\ encSecret = FALSE
  /\ hookRoomId = FALSE
  /\ hookError = "null"
  /\ hookAccess = FALSE
  /\ effMounted = FALSE
  /\ pending = 0
  /\ listening = FALSE
  /\ inRoom = FALSE
  /\ otherUsers = {}

\* WelcomeScreen onGetStarted; the screen is rendered only without a room error
GetStarted ==
  /\ hookError = "null"
  /\ step = "welcome"
  /\ step' = "code-setup"
  /\ UNCHANGED <<userIdentifier, localStorage, encSecret, hookRoomId, hookError,
                 hookAccess, effMounted, pending, listening, inRoom, otherUsers>>
  /\ UNCHANGED notSessVars

\* handleSetupWithCode with a name and a valid code: setupWithCode sets the
\* shared secret (the chatRoomId effect follows), the keys, the secret and the
\* identity are stored, userIdentifier and step are set, and the join effect
\* starts joinRoom without waiting for it
handleSetupWithCode ==
  /\ hookError = "null"
  /\ step = "code-setup"
  /\ pending < MaxPending
  /\ encSecret' = TRUE
  /\ hookRoomId' = TRUE
  /\ localStorage' = localStorage \cup SetupItems
  /\ userIdentifier' = TRUE
  /\ step' = "chat"
  /\ effMounted' = TRUE
  /\ pending' = pending + 1
  /\ UNCHANGED <<hookError, hookAccess, listening, inRoom, otherUsers>>
  /\ UNCHANGED notSessVars

\* the continuation of the effect's joinRoom: a failure stores the error and
\* revokes access; a success clears the error, grants access and attaches
\* the participants listener. Nothing ties it to the effect being mounted.
JoinReturn ==
  /\ pending > 0
  /\ pending' = pending - 1
  /\ IF ~IsRejoin(SessActive, SessSelf) /\ RoomIsFull(SessActive)
       THEN /\ hookError' = "full"
            /\ hookAccess' = FALSE
            /\ UNCHANGED <<listening, inRoom>>
       ELSE /\ hookError' = "null"
            /\ hookAccess' = TRUE
            /\ listening' = TRUE
            /\ inRoom' = TRUE
  /\ UNCHANGED <<step, userIdentifier, localStorage, encSecret, hookRoomId, effMounted,
                 otherUsers>>
  /\ UNCHANGED notSessVars

\* handleDisconnect: clearEncryptionData, two more items removed, the screen
\* and the identity reset; userIdentifier changing runs the cleanup of a
\* mounted join effect (leave, listener detached, access revoked). roomError
\* and chatRoomId are state of useMessages that no statement here touches.
handleDisconnect ==
  /\ localStorage' =
       (localStorage \ EncryptionItems) \ {"togetherUserIdentifier", "togetherSharedCode"}
  /\ encSecret' = FALSE
  /\ step' = "welcome"
  /\ userIdentifier' = FALSE
  /\ IF effMounted
       THEN /\ effMounted' = FALSE
            /\ hookAccess' = FALSE
            /\ listening' = FALSE
            /\ inRoom' = FALSE
       ELSE UNCHANGED <<effMounted, hookAccess, listening, inRoom>>
  /\ UNCHANGED <<hookRoomId, hookError, pending, otherUsers>>
  /\ UNCHANGED notSessVars

\* the callers of handleDisconnect: the room-error effect (an error while
\* the chat screen is shown: alert, then disconnect), the Go Back button of
\* the screen rendered whenever roomError is set, and the disconnect control
\* of the chat screen
Disconnect ==
  /\ (step = "chat" \/ hookError # "null")
  /\ handleDisconnect

\* another user joins the room (its joinRoom finds the room not full)
OtherJoins(i) ==
  /\ i \in OtherIds \ otherUsers
  /\ ~RoomIsFull(SessActive)
  /\ otherUsers' = otherUsers \cup {i}
  /\ UNCHANGED <<step, userIdentifier, localStorage, encSecret, hookRoomId, hookError,
                 hookAccess, effMounted, pending, listening, inRoom>>
  /\ UNCHANGED notSessVars

\* another user leaves the room
OtherLeaves(i) ==
  /\ i \in otherUsers
  /\ otherUsers' = otherUsers \ {i}
  /\ UNCHANGED <<step, userIdentifier, localStorage, encSecret, hookRoomId, hookError,
                 hookAccess, effMounted, pending, listening, inRoom>>
  /\ UNCHANGED notSessVars

\* the listener is handed a snapshot without this user: the callback stores
\* the removal error and revokes access
Evicted ==
  /\ inRoom
  /\ listening
  /\ inRoom' = FALSE
  /\ hookError' = "removed"
  /\ hookAccess' = FALSE
  /\ UNCHANGED <<step, userIdentifier, localStorage, encSecret, hookRoomId, effMounted,
                 pending, listening, otherUsers>>
  /\ UNCHANGED notSessVars

\* ---------------------------------------------- presence: clocks and order

\* One participant of one room, seen by several pages. The identifier is
\* derived from the name and the code, so every page opened with the same
\* name and code writes the heartbeats of the same participant; the other
\* pages observe her. Each page reads its own clock.

MaxClock == 2
MaxBeats == 2

Writers == {"w1", "w2"}
Observers == {"o1", "o2"}
PresPages == Writers \cup Observers

PresId == generateUserIdentifier("c1")

\* Date.now() on page p
DateNow(p) == pTime + pSkew[p]

\* the room once the participant has joined from page w1 at real time 0
PresRoom0 == [exists |-> TRUE, parts |-> [NoParts EXCEPT ![PresId] = 0]]

PresInit ==
  /\ pTime = 0
  /\ pSkew = [p \in PresPages |-> 0]
  /\ pRoom = PresRoom0
  /\ pIssued = <<>>
  /\ pPending = {}
  /\ pStoredReal = 0
  /\ pSeen = [o \in Observers |-> "unknown"]

\* real time advances by one heartbeat interval
PresTick ==
  /\ pTime < MaxClock * HEARTBEAT_INTERVAL
  /\ pTime' = pTime + HEARTBEAT_INTERVAL
  /\ UNCHANGED <<pSkew, pRoom, pIssued, pPending, pStoredReal, pSeen>>
  /\ UNCHANGED notPresVars

\* the clock of page p is set ahead by one minute
ClockAhead(p) ==
  /\ pSkew[p] = 0
  /\ pSkew' = [pSkew EXCEPT ![p] = INACTIVE_TIMEOUT]
  /\ UNCHANGED <<pTime, pRoom, pIssued, pPending, pStoredReal, pSeen>>
  /\ UNCHANGED notPresVars

\* the heartbeat timer of page w fires: updatePresence takes Date.now() and
\* calls updateDoc without waiting for earlier calls
PresBeat(w) ==
  /\ Len(pIssued) < MaxBeats
  /\ pIssued' = Append(pIssued, [page |-> w, ts |-> DateNow(w), real |-> pTime])
  /\ pPending' = pPending \cup {Len(pIssued) + 1}
  /\ UNCHANGED <<pTime, pSkew, pRoom, pStoredReal, pSeen>>
  /\ UNCHANGED notPresVars

\* the store serves the updateDoc of call i; the calls of one page are
\* served in the order made, those of different pages in any order
PresLand(i) ==
  /\ i \in pPending
  /\ \A j \in pPending : j < i => pIssued[j].page # pIssued[i].page
  /\ pRoom' = UpdatePresenceDoc(pRoom, PresId, pIssued[i].ts)
  /\ pStoredReal' = pIssued[i].real
  /\ pPending' = pPending \ {i}
  /\ UNCHANGED <<pTime, pSkew, pIssued, pSeen>>
  /\ UNCHANGED notPresVars

\* a snapshot reaches the listener of page o: the filter of
\* listenToParticipants with the page's own Date.now()
PresObserve(o) ==
  /\ pSeen' = [pSeen EXCEPT ![o] =
                 IF ActiveParticipants(pRoom.parts, DateNow(o))[PresId] # Absent
                   THEN "active" ELSE "inactive"]
  /\ UNCHANGED <<pTime, pSkew, pRoom, pIssued, pPending, pStoredReal>>
  /\ UNCHANGED notPresVars

\* ------------------------------------------------ composer: MessageInput

\* The MessageInput component: its state and the sends it started. A send is
\* the call of onSendMessage awaited by one handleSend; it returns at some
\* later step, whether its controller was aborted or not.

MaxSends == 3

\* the progress values handed to a send's onProgress callback
ProgressValues == {50, 99}

SendIds == 1..MaxSends

InFlight == {n \in SendIds : sendState[n] = "inflight"}

CompInit ==
  /\ draft = FALSE
  /\ isUploading = FALSE
  /\ uploadController = 0
  /\ uploadProgress = 0
  /\ sendState = [n \in SendIds |-> "none"]
  /\ sendAborted = {}

\* the user types a message or selects a file
EditDraft ==
  /\ ~draft
  /\ draft' = TRUE
  /\ UNCHANGED <<isUploading, uploadController, uploadProgress, sendState, sendAborted>>
  /\ UNCHANGED notCompVars

\* handleSend up to its await (58-69): nothing to send or isUploading
\* returns at once; else a new controller is stored, isUploading is set and
\* onSendMessage is called with the controller's signal
handleSend(n) ==
  /\ draft
  /\ ~isUploading
  /\ sendState[n] = "none"
  /\ \A k \in SendIds : k < n => sendState[k] # "none"
  /\ uploadController' = n
  /\ isUploading' = TRUE
  /\ uploadProgress' = 0
  /\ sendState' = [sendState EXCEPT ![n] = "inflight"]
  /\ UNCHANGED <<draft, sendAborted>>
  /\ UNCHANGED notCompVars

\* handleCancelUpload (48-55): the stored controller is aborted and the
\* uploading state is reset at once
handleCancelUpload ==
  /\ uploadController # 0
  /\ sendAborted' = sendAborted \cup {uploadController}
  /\ uploadController' = 0
  /\ isUploading' = FALSE
  /\ uploadProgress' = 0
  /\ UNCHANGED <<draft, sendState>>
  /\ UNCHANGED notCompVars

\* the progress callback handed to send n is called (66-68)
SendProgress(n, p) ==
  /\ sendState[n] = "inflight"
  /\ uploadProgress' = p
  /\ UNCHANGED <<draft, isUploading, uploadController, sendState, sendAborted>>
  /\ UNCHANGED notCompVars

\* the await of send n returns (70-95): a cancelled result returns early, a
\* success clears the draft, an error is reported; the finally block resets
\* isUploading, uploadProgress and uploadController whatever they belong to
SendReturns(n, res) ==
  /\ sendState[n] = "inflight"
  /\ res = "cancelled" => n \in sendAborted
  /\ sendState' = [sendState EXCEPT ![n] = "returned"]
  /\ draft' = IF res = "success" THEN FALSE ELSE draft
  /\ isUploading' = FALSE
  /\ uploadProgress' = 0
  /\ uploadController' = 0
  /\ UNCHANGED sendAborted
  /\ UNCHANGED notCompVars

\* -------------------------------------------------------- specifications

Init == RoomInit /\ SendInit /\ FileInit /\ AppInit /\ WorkerInit /\ SessInit /\ PresInit /\ CompInit

Next ==
  \/ Tick
  \/ \E c \in Clients : JoinStart(c)
  \/ \E c \in Clients : JoinCheck(c)
  \/ \E c \in Clients : JoinRejoinLand(c)
  \/ \E c \in Clients : JoinSetLand(c)
  \/ \E c \in Clients : HeartbeatFire(c)
  \/ \E c \in Clients : Observe(c)
  \/ \E c \in Clients : Cleanup(c)
  \/ \E c \in Clients : LeaveRead(c)
  \/ \E c \in Clients : LeaveLand(c)

Spec == Init /\ [][Next]_vars

\* the room protocol between two clients, each leaving whenever it is
\* mounted: the leave interleavings of a two-person chat
LeaveClients == {"c1", "c2"}

LeaveNext ==
  \/ Tick
  \/ \E c \in LeaveClients : JoinStart(c)
  \/ \E c \in LeaveClients : JoinCheck(c)
  \/ \E c \in LeaveClients : JoinRejoinLand(c)
  \/ \E c \in LeaveClients : JoinSetLand(c)
  \/ \E c \in LeaveClients : HeartbeatFire(c)
  \/ \E c \in LeaveClients : Observe(c)
  \/ \E c \in LeaveClients : CleanupEffect(c)
  \/ \E c \in LeaveClients : LeaveRead(c)
  \/ \E c \in LeaveClients : LeaveLand(c)

LeaveSpec == Init /\ [][LeaveNext]_vars

SendNext ==
  \/ \E n \in 0..MaxChunks, h \in HookStates, hasFile \in BOOLEAN : StartSend(n, h, hasFile)
  \/ Abort
  \/ ReadDone
  \/ WorkerEncryptChunk
  \/ WorkerComplete
  \/ PageProgress
  \/ PageComplete
  \/ \E ok \in BOOLEAN : UploadReady(ok)
  \/ \E p \in UploadSteps : StreamProgress(p)
  \/ StreamComplete
  \/ StreamError
  \/ StreamClose
  \/ UploadTimeout
  \/ \E ok \in BOOLEAN : LinkDone(ok)
  \/ \E ok \in BOOLEAN : SendDone(ok)

SendSpec == Init /\ [][SendNext]_vars

FileNext ==
  \/ \E bytes \in SeqsUpTo(FileByteValues, MaxFileLen), secret \in FileKeys, theirs \in FileKeys :
        SelectFile(bytes, secret, theirs)
  \/ \E nonces \in [1..Ceil(MaxFileLen, CHUNK_SIZE) -> Nonces] : EncryptFileStep(nonces)
  \/ \E i \in 1..Ceil(MaxFileLen, CHUNK_SIZE), field \in {"data", "nonce"}, pos \in {1, 3} :
        CorruptStored(i, field, pos)
  \/ \E kind \in {"swap", "drop", "dup"}, i \in 1..Ceil(MaxFileLen, CHUNK_SIZE) :
        RearrangeStored(kind, i)
  \/ DecryptFileStep
  \/ DownloadFileStep
  \/ \E nonces \in [1..Ceil(MaxFileLen, STREAM_CHUNK_SIZE) -> Nonces] : StreamRoundTrip(nonces)

FileSpec == Init /\ [][FileNext]_vars

AppNext ==
  \/ \E d \in Devices, code \in Codes, hasSubtle \in BOOLEAN : HandleSetupWithCode(d, code, hasSubtle)
  \/ \E d \in Devices : DeriveDone(d)
  \/ \E d \in Devices, how \in {"rejects", "short"} : DigestFails(d, how)
  \/ \E d \in Devices : RoomEffect(d)
  \/ \E d \in Devices, text \in Texts, nonce \in Nonces : SendText(d, text, nonce)
  \/ \E d \in Devices : ForeignPost(d)
  \/ \E i \in 1..MaxMessages : CorruptMessage(i)
  \/ \E d \in Devices : HandleDisconnect(d)

AppSpec == Init /\ [][AppNext]_vars

WorkerNext ==
  \/ \E p \in WorkerPayloads : RequestAsync(p)
  \/ \E nonce \in Nonces : WorkerOnMessage(nonce)
  \/ PageOnMessage
  \/ WorkerOnError
  \/ \E id \in 0..(MaxRequests - 1) : CallerCancels(id)

WorkerSpec == Init /\ [][WorkerNext]_vars

SessionNext ==
  \/ GetStarted
  \/ handleSetupWithCode
  \/ JoinReturn
  \/ Disconnect
  \/ \E i \in OtherIds : OtherJoins(i)
  \/ \E i \in OtherIds : OtherLeaves(i)
  \/ Evicted

SessionSpec == Init /\ [][SessionNext]_vars

PresNext ==
  \/ PresTick
  \/ \E p \in PresPages : ClockAhead(p)
  \/ \E w \in Writers : PresBeat(w)
  \/ \E i \in 1..MaxBeats : PresLand(i)
  \/ \E o \in Observers : PresObserve(o)

PresSpec == Init /\ [][PresNext]_vars

CompNext ==
  \/ EditDraft
  \/ \E n \in SendIds : handleSend(n)
  \/ handleCancelUpload
  \/ \E n \in SendIds, p \in ProgressValues : SendProgress(n, p)
  \/ \E n \in SendIds, res \in {"success", "cancelled", "error"} : SendReturns(n, res)

CompSpec == Init /\ [][CompNext]_vars

\* ------------------------------------------------------------ properties

\* fresh: stored and seen within the inactivity timeout at the current time
Fresh(i) == room.parts[i] # Absent /\ now - room.parts[i] < INACTIVE_TIMEOUT
FreshIds == {i \in Ids : Fresh(i)}
StoredIds == {i \in Ids : room.parts[i] # Absent}

\* the step in which client c's joinRoom evaluates the snapshot it read
AdmissionStep(c) == jpc[c] = "getDoc" /\ jpc'[c] # "getDoc"
\* the step in which the write awaited by client c's joinRoom is served
JoinLandStep(c) == jpc[c] \in {"rejoinUpdate", "setMerge", "setCreate"} /\ jpc'[c] = "idle"
\* the step in which the write awaited by client c's leaveRoom is served
LeaveLandStep(c) == lpc[c] \in {"deleteDoc", "setMerge"} /\ lpc'[c] = "idle"
\* the step in which a snapshot is delivered to client c's listener
ObserveStep(c) == participantUnsubscribe[c] /\ notify[c] /\ ~notify'[c] /\ participantUnsubscribe'[c]

\* C1: in every reachable state the number of active participants of the
\* room (stored entries seen within the inactivity timeout) is at most 2.
C1_AtMostTwoActive == Cardinality(FreshIds) <= 2

\* C2: a join into a room without two other active participants is not
\* rejected and is accepted when its write is served with the joiner stored;
\* a join by a further distinct participant while two are active is
\* rejected with the room-full result.
C2_CapacityEnforced ==
  [][\A c \in Clients :
       LET id == generateUserIdentifier(c) IN
       /\ (AdmissionStep(c) /\ Cardinality(FreshIds \ {id}) < 2)
             => (result'[c] # "full" /\ jpc'[c] \in {"rejoinUpdate", "setMerge", "setCreate"})
       /\ (AdmissionStep(c) /\ room.exists /\ ~Fresh(id) /\ Cardinality(FreshIds) = 2)
             => (result'[c] = "full" /\ roomError'[c] = "full" /\ ~canAccessRoom'[c])
       /\ (JoinLandStep(c) /\ jpc[c] # "rejoinUpdate")
             => (result'[c] = "accepted" /\ canAccessRoom'[c] /\ room'.parts[id] # Absent)
  ]_vars

\* C2 witness: two clients were accepted, both are active, and a third
\* distinct client was rejected as room-full
C2_Witness ==
  \E a, b, c \in Clients :
    /\ a # b /\ a # c /\ b # c
    /\ result[a] = "accepted" /\ result[b] = "accepted" /\ result[c] = "full"
    /\ FreshIds = {generateUserIdentifier(a), generateUserIdentifier(b)}
    /\ roomError[c] = "full"

C5_EvictionSignalled ==
  [][\A c \in Clients :
       (ObserveStep(c) /\ (~room.exists \/ ~Fresh(generateUserIdentifier(c))))
          => (roomError'[c] = "removed" /\ ~canAccessRoom'[c])
  ]_vars

\* C6: once the write of leaveRoom has been served the leaving participant
\* is not in the stored participant set, whether others remain or not.
C6_LeaveRemoves ==
  [][\A c \in Clients :
       LeaveLandStep(c) => room'.parts[generateUserIdentifier(c)] = Absent
  ]_vars

\* C7: after cleanup of a session (the effect is unmounted) no heartbeat
\* timer and no participants listener of that client is left running.
C7_NoTimerAfterCleanup ==
  \A c \in Clients :
    ~mounted[c] => (~heartbeatInterval[c] /\ ~participantUnsubscribe[c])

\* C8: the step that rejects a join as room-full changes neither the stored
\* room nor the client's timer and listener.
C8_RejectedJoinNoEffect ==
  [][\A c \in Clients :
       (AdmissionStep(c) /\ result'[c] = "full")
          => /\ room' = room
             /\ heartbeatInterval'[c] = heartbeatInterval[c]
             /\ participantUnsubscribe'[c] = participantUnsubscribe[c]
             /\ notify' = notify
             /\ ~canAccessRoom'[c]
  ]_vars

\* C8 witness: a client was rejected as room-full and has neither timer
\* nor listener, with two other participants stored and active
C8_Witness ==
  \E c \in Clients :
    /\ result[c] = "full"
    /\ ~heartbeatInterval[c] /\ ~participantUnsubscribe[c]
    /\ room.parts[generateUserIdentifier(c)] = Absent
    /\ Cardinality(FreshIds) = 2

\* C9: when the signal fires while chunks of a multi-chunk file are still
\* being encrypted, at most one more chunk is encrypted, and the send
\* resolves cancelled.
C9_CancelStopsEncryption ==
  (abortedAt = "encrypting" /\ totalChunks >= 2 /\ encAtAbort < totalChunks)
     => /\ encChunks <= encAtAbort + 1
        /\ outcome \in {"none", "cancelled"}

\* C10: a send whose signal fired while reading, encrypting, uploading or
\* before the message was posted resolves cancelled, never with an error.
C10_CancelNeverError ==
  (abortedAt \in {"reading", "encrypting", "ensureReady", "uploading", "link"}
     /\ outcome # "none")
     => outcome = "cancelled"

\* C11: when the signal fires while the upload is in flight, uploadFile
\* returns because of the abort: the step that ends an aborted upload is
\* never the firing of the 10 minute timeout.
C11_AbortReturnsWithoutTimeout ==
  [][(signal /\ abortedAt = "uploading" /\ spc = "uploading" /\ spc' # "uploading")
        => ~UploadTimeout]_vars

\* a stored chunk opens under the key: its authenticator matches
ChunkAuthentic(c, secret) ==
  secretboxOpen(base64ToUint8Array(c.data), base64ToUint8Array(c.nonce),
                base64ToUint8Array(secret)).ok

C13_ZeroLengthFile ==
  (fileBytes = <<>> /\ fpc = "encrypted" /\ stored = encryptedFile.chunks)
     => /\ encryptedFile.success
        /\ encryptedFile.chunks = <<>>
        /\ (dlResult # NoDownload /\ decKey = encKey)
             => (dlResult.ok /\ dlResult.bytes = <<>>)

\* C14: when some chunk of the stored chunk set fails authentication under
\* the receiver's key, decryption fails as a whole and hands back no bytes,
\* through decryptFile and through the download path alike.
C14_NoPartialFile ==
  (\E i \in 1..Len(stored) : ~ChunkAuthentic(stored[i], decKey))
     => /\ decResult # NoResult => (~decResult.success /\ decResult.data = <<>>)
        /\ dlResult # NoDownload => (~dlResult.ok /\ dlResult.bytes = <<>>)

\* C14 witness: of several chunks only the last fails authentication under
\* the right key, and decryption has failed
C14_Witness ==
  /\ Len(stored) >= 2
  /\ decKey = encKey
  /\ \A i \in 1..(Len(stored) - 1) : ChunkAuthentic(stored[i], decKey)
  /\ ~ChunkAuthentic(stored[Len(stored)], decKey)
  /\ decResult # NoResult
  /\ ~decResult.success

\* C15: two devices set up with the same code hold the same key pair,
\* whichever hashing path each environment takes.
C15_DerivationDeterministic ==
  \A d, e \in Devices :
    (apc[d] = "ready" /\ apc[e] = "ready" /\ sharedCode[d] = sharedCode[e])
       => myKeys[d] = myKeys[e]

\* the step in which device d's setup handler runs on the code entered
SetupStep(d) ==
  /\ apc[d] = "idle"
  /\ <<sharedCode[d], setupResult[d], apc[d], subtle[d]>>'
        # <<sharedCode[d], setupResult[d], apc[d], subtle[d]>>

\* C16: a setup with a code shorter than 6 characters returns the validation
\* error, starts no key derivation, sends nothing, and leaves key pair,
\* shared secret and room state as they were.
C16_ShortCodeRejected ==
  [][\A d \in Devices :
       (SetupStep(d) /\ Len(sharedCode'[d]) < 6)
          => /\ setupResult'[d] = "validation"
             /\ apc'[d] = "idle"
             /\ derivations' = derivations
             /\ myKeys' = myKeys
             /\ sharedSecret' = sharedSecret
             /\ chatRoomId' = chatRoomId
             /\ wire' = wire
             /\ chan' = chan
             /\ roomVars' = roomVars
  ]_vars

\* C16 witness: a device was refused a 5 character code and holds no keys,
\* while the other device is set up
C16_Witness ==
  \E d, e \in Devices :
    /\ d # e
    /\ setupResult[d] = "validation"
    /\ Len(sharedCode[d]) = 5
    /\ apc[d] = "idle"
    /\ myKeys[d] = NoKeys /\ sharedSecret[d] = <<>>
    /\ apc[e] = "ready"

\* the first bytes of a device's shared secret can be read off a string
RevealsSecret(text, secret) ==
  /\ Len(text) >= 4
  /\ base64ToUint8Array(SubSeq(text, 1, 4)) = SubSeq(base64ToUint8Array(secret), 1, 3)

\* C17: no string a client has sent to the store (a document path or a field
\* of a message document) lets bytes of its shared secret be read off it.
C17_SecretNeverTransmitted ==
  \A d \in Devices :
    sharedSecret[d] # <<>>
       => \A w \in wire : ~RevealsSecret(w.text, sharedSecret[d])

\* C18: when the received list is rebuilt, every document of the room is
\* given an entry, and the entry of a document that fails authentication
\* under the device's shared secret is marked not decrypted and has no text.
C18_FailedMessageMarked ==
  [][\A d \in Devices :
       (apc'[d] = "ready" /\ messages'[d] # messages[d])
          => LET docs == RoomDocs(chan', chatRoomId'[d]) IN
             /\ Len(messages'[d]) = Len(docs)
             /\ \A i \in 1..Len(docs) :
                  (docs[i].hasContent
                     /\ ~secretboxOpen(base64ToUint8Array(docs[i].ciphertext),
                                       base64ToUint8Array(docs[i].nonce),
                                       base64ToUint8Array(sharedSecret'[d])).ok)
                    => /\ ~messages'[d][i].decrypted
                       /\ messages'[d][i].text.kind # "text"
  ]_vars

\* C19: a send resolves with success, a failure result or the cancelled
\* outcome; it never throws.
C19_SendNeverThrows == outcome \in {"none", "success", "error", "cancelled"}

C21_SameCodeSameRoom ==
  \A d, e \in Devices :
    (setupResult[d] = "success" /\ setupResult[e] = "success"
       /\ sharedCode[d] = sharedCode[e])
      => /\ sharedSecret[d] = sharedSecret[e]
         /\ (chatRoomId[d] # <<>> /\ chatRoomId[e] # <<>>) => chatRoomId[d] = chatRoomId[e]

\* C22: a stored envelope that is none of the sender's envelopes, or that is
\* opened with a key other than the sender's, never opens: as a message it
\* gives null, as a file chunk it gives the failure result with no data.
C22_WrongKeyOrTamperFails ==
  \A i \in 1..Len(stored) :
    (decKey # encKey
       \/ \A j \in 1..Len(encryptedFile.chunks) : stored[i] # encryptedFile.chunks[j])
      => /\ decryptMessage([ciphertext |-> stored[i].data, nonce |-> stored[i].nonce],
                           decKey) = NullText
         /\ ~decryptFile(<<stored[i]>>, decKey).success
         /\ decryptFile(<<stored[i]>>, decKey).data = <<>>
         /\ (decResult # NoResult => ~decResult.success /\ decResult.data = <<>>)

\* C22 witness: decryption was run and failed on an envelope with a changed
\* nonce held under the sender's key, and on another run under a wrong key
C22_Witness ==
  /\ decResult # NoResult /\ ~decResult.success
  /\ \/ /\ decKey = encKey
        /\ Len(stored) = Len(encryptedFile.chunks)
        /\ \E i \in 1..Len(stored) :
             /\ stored[i].nonce # encryptedFile.chunks[i].nonce
             /\ stored[i].data = encryptedFile.chunks[i].data
     \/ /\ decKey # encKey /\ stored = encryptedFile.chunks /\ Len(stored) > 0

\* C23: when a join decided on a snapshot with exactly one active
\* participant, who is still active, is served, no other joiner unseen by
\* that snapshot has been accepted into the room in the meantime and is
\* active: of two joins that overlap on a room with one active participant,
\* at most one is accepted.
C23_ConcurrentJoinsOneAccepted ==
  [][\A c, e \in Clients :
       (/\ c # e
        /\ jpc[c] = "setMerge"
        /\ Cardinality(Keys(jsnap[c])) = 2
        /\ \A x \in Keys(jsnap[c]) : Fresh(x) \/ x = generateUserIdentifier(c)
        /\ jsnap[c][generateUserIdentifier(e)] = Absent
        /\ result[e] = "accepted"
        /\ Fresh(generateUserIdentifier(e)))
          => ~(JoinLandStep(c) /\ result'[c] = "accepted")
  ]_vars

\* the step in which a heartbeat's updatePresence is served (the only step
\* that writes the room outside joinRoom and leaveRoom)
HeartbeatStep == room' # room /\ jpc' = jpc /\ lpc' = lpc

\* C24: a heartbeat write leaves every participant that was not active
\* (not stored, or stale) not active.
C24_HeartbeatKeepsInactive ==
  [][HeartbeatStep
       => \A i \in Ids :
            ~Fresh(i) => ~(room'.parts[i] # Absent /\ now' - room'.parts[i] < INACTIVE_TIMEOUT)
  ]_vars

\* the stored participants refreshed at most two heartbeat intervals ago
\* whose client's heartbeat timer is running (the next refresh is due)
WithinOneMiss ==
  {i \in StoredIds : /\ now - room.parts[i] <= 2 * HEARTBEAT_INTERVAL
                     /\ \E c \in Clients : generateUserIdentifier(c) = i /\ heartbeatInterval[c]}

\* C25: a participant whose last refresh is at most two heartbeat intervals
\* old and whose timer is running is treated as active: its own listener
\* does not report it removed, and an admission check counts it towards the
\* capacity.
C25_OneMissedHeartbeatTolerated ==
  [][\A c \in Clients :
       LET id == generateUserIdentifier(c) IN
       /\ (ObserveStep(c) /\ room.exists /\ id \in WithinOneMiss)
             => roomError'[c] # "removed"
       /\ (AdmissionStep(c) /\ room.exists /\ Cardinality(WithinOneMiss \ {id}) >= 2)
             => result'[c] = "full"
  ]_vars

\* C26: while nobody has left and no join is in flight, every client whose
\* join returned accepted has its entry in the stored participants.
C26_AcceptedJoinStored ==
  (leaves = 0 /\ \A c \in Clients : jpc[c] = "idle")
    => \A c \in Clients :
         result[c] \in {"accepted", "rejoin"}
           => room.exists /\ room.parts[generateUserIdentifier(c)] # Absent

\* every client that joined has left: nothing is mounted, no join or leave
\* is in flight and no heartbeat timer is running
AllLeft ==
  /\ joins > 0
  /\ \A c \in Clients :
       ~mounted[c] /\ jpc[c] = "idle" /\ lpc[c] = "idle" /\ ~heartbeatInterval[c]

\* C27: once every participant that joined has completed its leave, the
\* room document is deleted or stores no participant.
C27_EmptyAfterAllLeft == AllLeft => (~room.exists \/ StoredIds = {})

\* C28: no step replaces the stored lastSeen of a participant by an earlier
\* one.
C28_LastSeenMonotone ==
  [][\A i \in Ids :
       (room.exists /\ room'.exists /\ room.parts[i] # Absent /\ room'.parts[i] # Absent)
          => room'.parts[i] >= room.parts[i]
  ]_vars

\* C29: while uploadFile awaits its completion promise, something that
\* settles the promise is still armed: the stream handlers on an open
\* stream, or the timeout. (Without either the call never returns.)
C29_TransferCanSettle ==
  spc = "uploading" => (upTimer \/ (upHandlers /\ upStream = "open"))

\* the settlement s is the outcome of request p's own payload: the worker
\* error, or for a decryption its decryptFile result, or for an encryption
\* the failure without a key or chunks that decrypt to the file given
OwnResult(p, s) ==
  \/ s.kind = "rejected" /\ s.value = "Worker error"
  \/ /\ p.type = "decrypt"
     /\ LET r == decryptFile(p.encryptedChunks, p.sharedSecret)
        IN IF r.success THEN s.kind = "resolved" /\ s.value = r.data
           ELSE s.kind = "rejected" /\ s.value = r.error
  \/ /\ p.type = "encrypt"
     /\ IF p.sharedSecret = <<>>
          THEN s.kind = "rejected" /\ s.value = "No encryption key"
          ELSE /\ s.kind = "resolved"
               /\ s.value.totalSize = Len(base64ToUint8Array(p.fileData))
               /\ decryptFile(s.value.chunks, p.sharedSecret) = Success(p.fileData)

C31_AccessOnlyWhileJoined ==
  \A c \in Clients :
    canAccessRoom[c]
      => (mounted[c] /\ result[c] \in {"accepted", "rejoin"} /\ roomError[c] = "null")

\* C32: once the page is disconnected (welcome screen, no identity, no join
\* awaited) the room error is cleared, so that the setup screens are shown
\* again and a new join can be attempted without reloading.
C32_ErrorClearedAfterDisconnect ==
  (step = "welcome" /\ ~userIdentifier /\ pending = 0) => hookError = "null"

\* the keys or the shared secret are stored, or the chat screen is entered
SessionEstablished ==
  \/ step = "chat"
  \/ localStorage \cap {"togetherMyKeys", "togetherSharedSecret"} # {}

\* C37: a step that establishes session state (stored keys or secret, the
\* chat screen) is taken only when the join is already accepted, and the step
\* that reports the room as full finds no session state.
C37_NoSessionBeforeAccepted ==
  [][/\ (~SessionEstablished /\ SessionEstablished') => hookAccess
     /\ (hookError # "full" /\ hookError' = "full") => ~SessionEstablished]_vars

\* C33: whenever a snapshot is classified, the participant counts as active
\* exactly when less than the inactivity timeout of real time has passed
\* since the heartbeat stored for her was taken, whatever the clocks of the
\* pages show.
C33_ActiveByRealElapsedTime ==
  [][\A o \in Observers :
       pSeen'[o] # pSeen[o]
         => (pSeen'[o] = "active" <=> pTime - pStoredReal < INACTIVE_TIMEOUT)]_vars

\* the room after the heartbeat writes of calls are served in the order given
RECURSIVE ServeInOrder(_, _)
ServeInOrder(r, calls) ==
  IF calls = <<>> THEN r
  ELSE ServeInOrder(UpdatePresenceDoc(r, PresId, Head(calls).ts), Tail(calls))

\* C39: once every heartbeat write made has been served, the stored room is
\* the one that serving the same writes in the order they were made gives:
\* the order in which the store serves them does not matter.
C39_HeartbeatOrderInsensitive ==
  pPending = {} => pRoom = ServeInOrder(PresRoom0, pIssued)

\* the stored chunk list is made of chunks the sender produced, each intact,
\* but is not the list the sender produced
Rearranged ==
  /\ fpc = "encrypted"
  /\ stored # encryptedFile.chunks
  /\ \A k \in 1..Len(stored) : \E j \in 1..Len(encryptedFile.chunks) : stored[k] = encryptedFile.chunks[j]

\* C34: a chunk set that was reordered, lost a chunk or had a chunk repeated
\* is never reported as a successful decryption, neither by the worker's
\* decryptFile nor by the download of the hook.
C34_RearrangedNeverDecrypts ==
  Rearranged => (~decResult.success /\ ~dlResult.ok)

\* C35: the chunk set the worker's encryptFile returns and the envelope
\* stored for it each record the chunk size, the chunk count and the
\* original size of the file.
C35_ChunkSizeRecorded ==
  (fpc = "encrypted" /\ encryptedFile.success)
    => /\ {"chunkSize", "totalChunks"} \subseteq DOMAIN encryptedFile
       /\ {"chunkSize", "totalChunks", "originalSize"} \subseteq DOMAIN StoredEnvelope

\* C36: a decryption whose caller cancelled while it was pending ends with
\* the cancelled outcome, not with the decrypted file and not with an error.
C36_CancelledDecryptionReported ==
  \A i \in 1..messageId :
    ((i - 1) \in cancelRequested /\ settled[i] # <<>>)
      => settled[i][1].kind = "cancelled"

\* the step in which the key derivation of device d's setup returns
DeriveStep(d) == apc[d] = "deriving" /\ apc'[d] # "deriving"

\* C40: a derivation whose digest rejected or gave a seed that is not 32
\* bytes long ends the setup without success and leaves the device without a
\* key pair and without a shared secret.
C40_HashFailureFailsDerivation ==
  [][\A d \in Devices :
       (DeriveStep(d) /\ subtle[d] /\ digestOutcome[d] # "ok")
          => /\ setupResult'[d] # "success"
             /\ myKeys'[d] = NoKeys
             /\ sharedSecret'[d] = <<>>]_vars

\* C38: at most one send started from the composer is in flight, the stored
\* controller is never that of another send than the one in flight, and a
\* send in flight that was not cancelled is the one the cancel control aborts.
C38_OneSendInFlight ==
  /\ Cardinality(InFlight) <= 1
  /\ \A n \in InFlight : uploadController \in {0, n}
  /\ \A n \in InFlight \ sendAborted : uploadController = n

====
